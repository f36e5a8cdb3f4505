-------------------------- MODULE VotingServiceProofs --------------------------
(* Theorems about VotingService, for every set of residents, topics, options    *)
(* and workers.                                                                 *)
EXTENDS VotingService, TLAPS

-----------------------------------------------------------------------------
(* Lemmas about rows *)

LEMMA RowTypes ==
  ASSUME NEW u \in Users, NEW t \in Topics, NEW o \in Options
  PROVE  NewVote(u, t, o) \in Vote /\ NewTracking(u, t) \in VoteTracking
BY DEF NewVote, NewTracking, Identity, anon_hash, Vote, VoteTracking

\* A row names exactly one resident, in either mode.
LEMMA RowOwner ==
  ASSUME NEW u \in Users, NEW v \in Users, NEW t \in Topics, NEW o \in Options
  PROVE  /\ Voter(NewVote(u, t, o)) = u
         /\ NewVote(u, t, o).topic = t
         /\ NewVote(u, t, o).option = o
         /\ NewTracking(u, t).topic = t
         /\ IsBy(NewVote(u, t, o), v, t) <=> u = v
         /\ IsBy(NewTracking(u, t), v, t) <=> u = v
<1>1. CASE Mode[t] = "identified"
  BY <1>1 DEF NewVote, NewTracking, Identity, Voter, IsBy
<1>2. CASE Mode[t] # "identified"
  BY <1>2 DEF NewVote, NewTracking, Identity, Voter, IsBy, anon_hash
<1>3. QED
  BY <1>1, <1>2

\* Row i of both tables is resident u's, on topic t.
By(i, u, t) == i \in 1 .. Len(votes) /\ votes[i].topic = t /\ Voter(votes[i]) = u

\* The two tables have grown in pairs, each pair written for one resident.
Paired ==
    /\ Len(votes) = Len(vote_tracking)
    /\ \A i \in 1 .. Len(votes) : \E u \in Users, t \in Topics, o \in Options :
          /\ votes[i] = NewVote(u, t, o)
          /\ vote_tracking[i] = NewTracking(u, t)
          /\ TopicOf[o] = t

\* No two pairs are the same resident's on the same topic.
Distinct ==
    \A i, j \in 1 .. Len(votes) :
        votes[i].topic = votes[j].topic /\ Voter(votes[i]) = Voter(votes[j]) => i = j

\* What the SELECTs and the UNIQUE constraints say of u and t is what the pairs say.
LEMMA Lookups ==
  ASSUME TypeOK, Paired, NEW u \in Users, NEW t \in Topics
  PROVE  /\ \A i : i \in VotesOf(u, t) <=> By(i, u, t)
         /\ \A i \in 1 .. Len(vote_tracking) :
               vote_tracking[i].topic = t /\ IsBy(vote_tracking[i], u, t) <=> By(i, u, t)
         /\ has_voted(u, t) <=> \E i \in 1 .. Len(votes) : By(i, u, t)
         /\ Unique(NewTracking(u, t)) <=> ~ \E i \in 1 .. Len(votes) : By(i, u, t)
<1> USE VotingAssumption
<1>1. DOMAIN votes = 1 .. Len(votes) /\ DOMAIN vote_tracking = 1 .. Len(votes)
  BY DEF TypeOK, Paired
<1>2. ASSUME NEW i \in 1 .. Len(votes)
      PROVE  /\ votes[i].topic = t /\ IsBy(votes[i], u, t) <=> By(i, u, t)
             /\ vote_tracking[i].topic = t /\ IsBy(vote_tracking[i], u, t) <=> By(i, u, t)
             /\ LET old == vote_tracking[i]  new == NewTracking(u, t) IN
                (old.topic = new.topic =>
                    /\ old.user_id # NULL => old.user_id # new.user_id
                    /\ old.hashed_user_id # NULL => old.hashed_user_id # new.hashed_user_id)
                <=> ~By(i, u, t)
  <2>1. PICK v \in Users, s \in Topics, o \in Options :
           votes[i] = NewVote(v, s, o) /\ vote_tracking[i] = NewTracking(v, s)
    BY DEF Paired
  <2>2. By(i, u, t) <=> s = t /\ v = u
    BY <2>1, RowOwner DEF By
  <2>3. /\ votes[i].topic = t /\ IsBy(votes[i], u, t) <=> s = t /\ v = u
        /\ vote_tracking[i].topic = t /\ IsBy(vote_tracking[i], u, t) <=> s = t /\ v = u
    BY <2>1, RowOwner
  <2>4. LET old == vote_tracking[i]  new == NewTracking(u, t) IN
        (old.topic = new.topic =>
            /\ old.user_id # NULL => old.user_id # new.user_id
            /\ old.hashed_user_id # NULL => old.hashed_user_id # new.hashed_user_id)
        <=> ~(s = t /\ v = u)
    <3>1. CASE s # t
      BY <2>1, <3>1 DEF NewTracking
    <3>2. CASE s = t /\ Mode[t] = "identified"
      BY <2>1, <3>2 DEF NewTracking, Identity
    <3>3. CASE s = t /\ Mode[t] # "identified"
      BY <2>1, <3>3 DEF NewTracking, Identity, anon_hash
    <3>4. QED
      BY <3>1, <3>2, <3>3
  <2>5. QED
    BY <2>2, <2>3, <2>4
<1>3. \A i : i \in VotesOf(u, t) <=> By(i, u, t)
  BY <1>1, <1>2 DEF VotesOf, By
<1>4. has_voted(u, t) <=> \E i \in 1 .. Len(votes) : By(i, u, t)
  BY <1>1, <1>2 DEF has_voted
<1>5. Unique(NewTracking(u, t)) <=> ~ \E i \in 1 .. Len(votes) : By(i, u, t)
  BY <1>1, <1>2 DEF Unique
<1>6. QED
  BY <1>1, <1>2, <1>3, <1>4, <1>5 DEF Paired

-----------------------------------------------------------------------------
(* Typing *)

\* Every step keeps the types.
LEMMA TypingStep ==
  ASSUME TypeOK, [Next]_vars
  PROVE  TypeOK'
<1> USE VotingAssumption
<1> USE DEF TypeOK
<1>a. NoRequest \in Request
  BY DEF NoRequest, Request
<1>b. ASSUME NEW w \in Workers, NEW label \in Casting, pc[w] \in Casting, Goto(w, label)
      PROVE  /\ pc' \in [Workers -> {"idle", "myvote"} \cup Casting]
             /\ req' \in [Workers -> Request]
             /\ \A v \in Workers :
                   /\ pc'[v] # "idle" => req'[v].user \in Users /\ req'[v].topic \in Topics
                   /\ pc'[v] \in Casting => req'[v].option \in Options
  BY <1>b DEF Goto, Casting
<1>c. ASSUME NEW w \in Workers, Return(w)
      PROVE  /\ pc' \in [Workers -> {"idle", "myvote"} \cup Casting]
             /\ req' \in [Workers -> Request]
             /\ \A v \in Workers :
                   /\ pc'[v] # "idle" => req'[v].user \in Users /\ req'[v].topic \in Topics
                   /\ pc'[v] \in Casting => req'[v].option \in Options
  BY <1>a, <1>c DEF Return, Casting
<1>1. ASSUME NEW w \in Workers, NEW u \in Users, NEW t \in Topics, NEW o \in Options,
             CastUser(w, u, t, o)
      PROVE TypeOK'
  <2>1. [user |-> u, topic |-> t, option |-> o] \in Request
    BY DEF Request
  <2>2. QED
    BY <1>1, <2>1 DEF CastUser, Casting
<1>2. ASSUME NEW w \in Workers, CastTopic(w) PROVE TypeOK'
  BY <1>2, <1>b, <1>c DEF CastTopic, Casting
<1>3. ASSUME NEW w \in Workers, CastTracking(w) PROVE TypeOK'
  BY <1>3, <1>b, <1>c DEF CastTracking, Casting
<1>4. ASSUME NEW w \in Workers, CastCommit(w) PROVE TypeOK'
  <2>1. req[w].user \in Users /\ req[w].topic \in Topics /\ req[w].option \in Options
    BY <1>4 DEF CastCommit, Casting
  <2>2. CASE ~Unique(NewTracking(req[w].user, req[w].topic))
    BY <1>4, <1>c, <2>2 DEF CastCommit
  <2>3. CASE Unique(NewTracking(req[w].user, req[w].topic))
    <3> DEFINE u == req[w].user  t == req[w].topic  o == req[w].option
    <3>0. /\ votes' = Append(votes, NewVote(u, t, o))
          /\ vote_tracking' = Append(vote_tracking, NewTracking(u, t))
          /\ CountLate(w, t)
      BY <1>4, <2>3 DEF CastCommit
    <3>1. late' \in [Workers -> [Topics -> 0 .. 2]]
      <4> DEFINE row == [late[w] EXCEPT ![t] = late[w][t] + 1]
      <4>1. late[w] \in [Topics -> 0 .. 2] /\ late[w][t] \in 0 .. 2
        BY <2>1
      <4>2. ASSUME late[w][t] # 2 PROVE row \in [Topics -> 0 .. 2]
        <5>1. late[w][t] + 1 \in 0 .. 2
          BY <4>1, <4>2
        <5>2. QED
          BY <4>1, <5>1
      <4>3. late' = late \/ (late[w][t] # 2 /\ late' = [late EXCEPT ![w] = row])
        <5>1. CASE Accepts(t) \/ late[w][t] = 2
          BY <3>0, <5>1 DEF CountLate
        <5>2. CASE ~(Accepts(t) \/ late[w][t] = 2)
          BY <3>0, <5>2 DEF CountLate
        <5>3. QED
          BY <5>1, <5>2
      <4>4. QED
        <5> HIDE DEF row
        <5> QED  BY <4>2, <4>3
    <3>2. votes' \in Seq(Vote) /\ vote_tracking' \in Seq(VoteTracking)
      BY <2>1, <3>0, RowTypes
    <3>3. QED
      BY <1>4, <1>b, <2>3, <3>1, <3>2 DEF CastCommit, Casting
  <2>4. QED
    BY <2>2, <2>3
<1>5. ASSUME NEW w \in Workers, NEW logged \in BOOLEAN, NEW answered \in BOOLEAN,
             CastAudit(w, logged, answered)
      PROVE TypeOK'
  <2>1. [user |-> req[w].user, topic |-> req[w].topic, option |-> req[w].option] \in AuditLog
    BY <1>5 DEF CastAudit, Casting, AuditLog
  <2>2. audit_logs' \in Seq(AuditLog)
    BY <1>5, <2>1 DEF CastAudit
  <2>3. QED
    BY <1>5, <1>c, <2>2 DEF CastAudit
<1>6. ASSUME NEW w \in Workers, NEW u \in Users, NEW t \in Topics, MyVoteTracking(w, u, t)
      PROVE TypeOK'
  <2>1. [user |-> u, topic |-> t, option |-> NULL] \in Request
    BY DEF Request
  <2>2. QED
    BY <1>6, <2>1 DEF MyVoteTracking, Casting
<1>7. ASSUME NEW w \in Workers, MyVoteRow(w) PROVE TypeOK'
  BY <1>7, <1>c DEF MyVoteRow
<1>8. ASSUME NEW w \in Workers, Abort(w) PROVE TypeOK'
  BY <1>8, <1>c DEF Abort
<1>9. ASSUME NEW t \in Topics, NEW new \in Statuses, UpdateTopicStatus(t, new)
      PROVE TypeOK'
  BY <1>9 DEF UpdateTopicStatus, ResetLate
<1>10. ASSUME NEW u \in Users, ToggleUser(u) PROVE TypeOK'
  BY <1>10 DEF ToggleUser
<1>11. CASE Tick
  BY <1>11 DEF Tick, ResetLate
<1>12. CASE UNCHANGED vars
  BY <1>12 DEF vars
<1>13. QED
  BY <1>1, <1>2, <1>3, <1>4, <1>5, <1>6, <1>7, <1>8, <1>9, <1>10, <1>11, <1>12
  DEF Next, CastStep

\* TypeOK of VotingService, for every set of residents, workers, topics and options.
THEOREM Typing == Spec => []TypeOK
<1>1. Init => TypeOK
  BY VotingAssumption DEF Init, TypeOK, NoRequest, Request, Casting
<1>2. TypeOK /\ [Next]_vars => TypeOK'
  BY TypingStep
<1>3. QED
  BY <1>1, <1>2, PTL DEF Spec

-----------------------------------------------------------------------------
(* The two tables *)

\* Handlers past the check of cast_vote carry an option of their topic.
Handlers ==
    \A w \in Workers : pc[w] \in {"tracking", "commit", "audit"} =>
        TopicOf[req[w].option] = req[w].topic

TableInv == Paired /\ Distinct /\ Handlers

\* Every step leaves the tables alone, or adds one pair for a resident and topic
\* that had none.
AddsPair(w) ==
    LET u == req[w].user  t == req[w].topic  o == req[w].option IN
    /\ CastCommit(w)
    /\ u \in Users /\ t \in Topics /\ o \in Options
    /\ pc[w] = "commit"
    /\ Unique(NewTracking(u, t))
    /\ votes' = Append(votes, NewVote(u, t, o))
    /\ vote_tracking' = Append(vote_tracking, NewTracking(u, t))
    /\ CountLate(w, t)
    /\ Goto(w, "audit")
    /\ UNCHANGED <<now, status, authorised, audit_logs, told>>

LEMMA TableSteps ==
  ASSUME TypeOK, [Next]_vars
  PROVE  \/ UNCHANGED <<votes, vote_tracking>>
         \/ \E w \in Workers : AddsPair(w)
<1>1. ASSUME NEW w \in Workers, CastCommit(w)
      PROVE  UNCHANGED <<votes, vote_tracking>> \/ AddsPair(w)
  <2>1. req[w].user \in Users /\ req[w].topic \in Topics /\ req[w].option \in Options
    BY <1>1 DEF CastCommit, TypeOK, Casting
  <2>2. CASE Unique(NewTracking(req[w].user, req[w].topic))
    BY <1>1, <2>1, <2>2 DEF CastCommit, AddsPair
  <2>3. CASE ~Unique(NewTracking(req[w].user, req[w].topic))
    BY <1>1, <2>3 DEF CastCommit
  <2>4. QED
    BY <2>2, <2>3
<1>2. CASE UNCHANGED vars
  BY <1>2 DEF vars
<1>3. CASE Next
  BY <1>1, <1>3 DEF Next, CastStep, CastUser, CastTopic, CastTracking, CastAudit, MyVoteTracking,
                    MyVoteRow, Abort, UpdateTopicStatus, ToggleUser, Tick
<1>4. QED
  BY <1>2, <1>3

LEMMA TableInvariant == Spec => []TableInv
<1>1. Init => TableInv
  BY DEF Init, TableInv, Paired, Distinct, Handlers
<1>2. TypeOK /\ TableInv /\ [Next]_vars => TableInv'
  <2> SUFFICES ASSUME TypeOK, TableInv, [Next]_vars PROVE TableInv'
    OBVIOUS
  <2>1. Handlers'
    <3>a. ASSUME NEW w \in Workers, Return(w) PROVE Handlers'
      BY <3>a DEF Return, Handlers, TableInv, TypeOK
    <3>b. ASSUME NEW w \in Workers, NEW label \in {"tracking", "commit", "audit"},
                 Goto(w, label), TopicOf[req[w].option] = req[w].topic
          PROVE Handlers'
      BY <3>b DEF Goto, Handlers, TableInv, TypeOK
    <3>1. ASSUME NEW w \in Workers, CastTopic(w) PROVE Handlers'
      BY <3>1, <3>a, <3>b DEF CastTopic
    <3>2. ASSUME NEW w \in Workers, CastTracking(w) PROVE Handlers'
      BY <3>2, <3>a, <3>b DEF CastTracking, TableInv, Handlers
    <3>3. ASSUME NEW w \in Workers, CastCommit(w) PROVE Handlers'
      <4>1. TopicOf[req[w].option] = req[w].topic
        BY <3>3 DEF CastCommit, TableInv, Handlers
      <4>2. Return(w) \/ Goto(w, "audit")
        BY <3>3 DEF CastCommit
      <4>3. QED
        BY <3>a, <3>b, <4>1, <4>2
    <3>4. ASSUME NEW w \in Workers,
                 \/ \E logged, answered \in BOOLEAN : CastAudit(w, logged, answered)
                 \/ MyVoteRow(w) \/ Abort(w)
          PROVE Handlers'
      BY <3>4, <3>a DEF CastAudit, MyVoteRow, Abort
    <3>5. ASSUME NEW w \in Workers, NEW u \in Users, NEW t \in Topics, NEW o \in Options,
                 CastUser(w, u, t, o)
          PROVE Handlers'
      BY <3>5 DEF CastUser, Handlers, TableInv, TypeOK
    <3>6. ASSUME NEW w \in Workers, NEW u \in Users, NEW t \in Topics, MyVoteTracking(w, u, t)
          PROVE Handlers'
      BY <3>6 DEF MyVoteTracking, Handlers, TableInv, TypeOK
    <3>7. CASE UNCHANGED <<pc, req>>
      BY <3>7 DEF Handlers, TableInv
    <3>8. QED
      BY <3>1, <3>2, <3>3, <3>4, <3>5, <3>6, <3>7
      DEF Next, CastStep, UpdateTopicStatus, ToggleUser, Tick, vars
  <2>2. CASE UNCHANGED <<votes, vote_tracking>>
    BY <2>1, <2>2 DEF TableInv, Paired, Distinct
  <2>3. ASSUME NEW w \in Workers, AddsPair(w) PROVE TableInv'
    <3> DEFINE u == req[w].user  t == req[w].topic  o == req[w].option  n == Len(votes)
    <3>1. /\ u \in Users /\ t \in Topics /\ o \in Options
          /\ votes' = Append(votes, NewVote(u, t, o))
          /\ vote_tracking' = Append(vote_tracking, NewTracking(u, t))
          /\ Unique(NewTracking(u, t))
          /\ pc[w] = "commit"
      BY <2>3 DEF AddsPair
    <3>2. TopicOf[o] = t
      BY <3>1 DEF TableInv, Handlers
    <3>3. /\ n \in Nat /\ Len(vote_tracking) = n
          /\ Len(votes') = n + 1 /\ Len(vote_tracking') = n + 1
          /\ votes'[n + 1] = NewVote(u, t, o)
          /\ vote_tracking'[n + 1] = NewTracking(u, t)
          /\ \A i \in 1 .. n : votes'[i] = votes[i] /\ vote_tracking'[i] = vote_tracking[i]
      BY <3>1 DEF TypeOK, TableInv, Paired
    <3>4. 1 .. Len(votes') = (1 .. n) \cup {n + 1}
      BY <3>3
    <3>5. Paired'
      <4>1. \A i \in 1 .. n : \E v \in Users, s \in Topics, p \in Options :
               /\ votes'[i] = NewVote(v, s, p)
               /\ vote_tracking'[i] = NewTracking(v, s)
               /\ TopicOf[p] = s
        BY <3>3 DEF TableInv, Paired
      <4>2. \A i \in 1 .. Len(votes') : \E v \in Users, s \in Topics, p \in Options :
               /\ votes'[i] = NewVote(v, s, p)
               /\ vote_tracking'[i] = NewTracking(v, s)
               /\ TopicOf[p] = s
        BY <3>1, <3>2, <3>3, <3>4, <4>1
      <4>3. QED
        BY <3>3, <4>2 DEF Paired, NewVote, NewTracking, Identity, anon_hash
    <3>6. ~ \E i \in 1 .. n : By(i, u, t)
      BY <3>1, Lookups DEF TableInv
    <3>7. votes'[n + 1].topic = t /\ Voter(votes'[n + 1]) = u
      BY <3>1, <3>3, RowOwner
    <3>8. Distinct'
      <4> SUFFICES ASSUME NEW i \in 1 .. Len(votes'), NEW j \in 1 .. Len(votes'),
                          votes'[i].topic = votes'[j].topic, Voter(votes'[i]) = Voter(votes'[j])
                   PROVE  i = j
        BY DEF Distinct, Voter
      <4>1. CASE i \in 1 .. n /\ j \in 1 .. n
        BY <3>3, <4>1 DEF TableInv, Distinct
      <4>2. CASE i \in 1 .. n /\ j = n + 1
        BY <3>3, <3>6, <3>7, <4>2 DEF By
      <4>3. CASE i = n + 1 /\ j \in 1 .. n
        BY <3>3, <3>6, <3>7, <4>3 DEF By
      <4>4. QED
        BY <3>4, <4>1, <4>2, <4>3
    <3>9. QED
      BY <2>1, <3>5, <3>8 DEF TableInv
  <2>4. QED
    BY <2>2, <2>3, TableSteps
<1>3. QED
  BY <1>1, <1>2, Typing, PTL DEF Spec

\* One vote and one tracking row per resident and topic, in both modes.
THEOREM NoDouble == Spec => []NoDoubleVote
<1>1. TypeOK /\ TableInv => NoDoubleVote
  <2> SUFFICES ASSUME TypeOK, TableInv, NEW u \in Users, NEW t \in Topics
               PROVE  /\ \A i, j \in VotesOf(u, t) : i = j
                      /\ \A i, j \in DOMAIN vote_tracking :
                            /\ vote_tracking[i].topic = t /\ IsBy(vote_tracking[i], u, t)
                            /\ vote_tracking[j].topic = t /\ IsBy(vote_tracking[j], u, t)
                            => i = j
    BY DEF NoDoubleVote
  <2>1. \A i, j : By(i, u, t) /\ By(j, u, t) => i = j
    BY DEF By, TableInv, Distinct
  <2>2. DOMAIN vote_tracking = 1 .. Len(vote_tracking)
    BY DEF TypeOK
  <2>3. QED
    BY <2>1, <2>2, Lookups DEF TableInv
<1>2. QED
  BY <1>1, Typing, TableInvariant, PTL

\* The two tables count the same votes.
THEOREM Matching == Spec => []VotesMatchTracking
<1>1. TypeOK /\ TableInv => VotesMatchTracking
  <2> SUFFICES ASSUME TypeOK, TableInv PROVE VotesMatchTracking
    OBVIOUS
  <2>1. ASSUME NEW i \in 1 .. Len(votes)
        PROVE  /\ votes[i].topic = vote_tracking[i].topic
               /\ votes[i].user_id = vote_tracking[i].user_id
               /\ votes[i].hashed_user_id = vote_tracking[i].hashed_user_id
               /\ TopicOf[votes[i].option] = votes[i].topic
    <3>1. PICK u \in Users, t \in Topics, o \in Options :
            /\ votes[i] = NewVote(u, t, o)
            /\ vote_tracking[i] = NewTracking(u, t)
            /\ TopicOf[o] = t
      BY <2>1 DEF TableInv, Paired
    <3>2. QED
      BY <3>1 DEF NewVote, NewTracking
  <2>2. QED
    BY <2>1 DEF VotesMatchTracking, TypeOK, TableInv, Paired
<1>2. QED
  BY <1>1, Typing, TableInvariant, PTL

-----------------------------------------------------------------------------
(* Votes that land after the topic closed *)

\* A worker past the check, or a topic that is open, has no late vote on record.
LateInv ==
    /\ OneLateVotePerWorker
    /\ \A w \in Workers, t \in Topics :
          Accepts(t) \/ (pc[w] \in {"tracking", "commit"} /\ req[w].topic = t) => late[w][t] = 0

LEMMA LateInvariant == Spec => []LateInv
<1>1. Init => LateInv
  BY DEF Init, LateInv, OneLateVotePerWorker
<1>2. TypeOK /\ LateInv /\ [Next]_vars => LateInv'
  <2> SUFFICES ASSUME TypeOK, LateInv, [Next]_vars PROVE LateInv'
    OBVIOUS
  <2> DEFINE past(v, t) == pc[v] \in {"tracking", "commit"} /\ req[v].topic = t
  <2>a. ASSUME UNCHANGED <<now, status, late>>,
               \A v \in Workers, t \in Topics : past(v, t)' => past(v, t) \/ Accepts(t)
        PROVE  LateInv'
    BY <2>a DEF LateInv, OneLateVotePerWorker, Accepts, is_within_window
  <2>b. ASSUME NEW w \in Workers, Return(w)
        PROVE  \A v \in Workers, t \in Topics : past(v, t)' => past(v, t)
    BY <2>b DEF Return, TypeOK
  <2>1. ASSUME NEW w \in Workers, CastTopic(w) PROVE LateInv'
    <3>1. CASE Accepts(req[w].topic) /\ Goto(w, "tracking")
      BY <2>1, <2>a, <3>1 DEF CastTopic, Goto, TypeOK
    <3>2. CASE Return(w)
      BY <2>1, <2>a, <2>b, <3>2 DEF CastTopic
    <3>3. QED
      BY <2>1, <3>1, <3>2 DEF CastTopic
  <2>2. ASSUME NEW w \in Workers, CastTracking(w) PROVE LateInv'
    <3>1. CASE Return(w)
      BY <2>2, <2>a, <2>b, <3>1 DEF CastTracking
    <3>2. CASE Goto(w, "commit")
      BY <2>2, <2>a, <3>2 DEF CastTracking, Goto, TypeOK
    <3>3. QED
      BY <2>2, <3>1, <3>2 DEF CastTracking
  <2>3. ASSUME NEW w \in Workers, CastCommit(w) PROVE LateInv'
    <3> DEFINE t == req[w].topic
    <3>1. CASE Return(w) /\ UNCHANGED late
      BY <2>3, <2>a, <2>b, <3>1 DEF CastCommit
    <3>2. CASE Goto(w, "audit") /\ CountLate(w, t)
      <4>1. t \in Topics /\ late[w][t] = 0
        BY <2>3 DEF CastCommit, TypeOK, Casting, LateInv
      <4>2. \A v \in Workers, s \in Topics : past(v, s)' => past(v, s) /\ v # w
        BY <3>2 DEF Goto, TypeOK
      <4>3. UNCHANGED <<now, status>>
        BY <2>3 DEF CastCommit
      <4>4. CASE Accepts(t)
        BY <2>a, <3>2, <4>2, <4>3, <4>4 DEF CountLate
      <4>5. CASE ~Accepts(t)
        <5>1. late' = [late EXCEPT ![w] = [late[w] EXCEPT ![t] = late[w][t] + 1]]
          BY <3>2, <4>1, <4>5 DEF CountLate
        <5>2. \A v \in Workers, s \in Topics :
                 late'[v][s] = IF v = w /\ s = t THEN 1 ELSE late[v][s]
          BY <4>1, <5>1 DEF TypeOK
        <5>3. \A s \in Topics : Accepts(s)' <=> Accepts(s)
          BY <4>3 DEF Accepts, is_within_window
        <5>4. QED
          BY <4>2, <4>5, <5>2, <5>3 DEF LateInv, OneLateVotePerWorker
      <4>6. QED
        BY <4>4, <4>5
    <3>3. QED
      BY <2>3, <3>1, <3>2 DEF CastCommit
  <2>4. ASSUME NEW w \in Workers, NEW logged \in BOOLEAN, NEW answered \in BOOLEAN,
               CastAudit(w, logged, answered)
        PROVE LateInv'
    BY <2>4, <2>a, <2>b DEF CastAudit
  <2>5. ASSUME NEW w \in Workers, MyVoteRow(w) \/ Abort(w) PROVE LateInv'
    BY <2>5, <2>a, <2>b DEF MyVoteRow, Abort
  <2>6. ASSUME NEW w \in Workers, NEW u \in Users, NEW t \in Topics, NEW o \in Options,
               CastUser(w, u, t, o)
        PROVE LateInv'
    BY <2>6, <2>a DEF CastUser, TypeOK
  <2>7. ASSUME NEW w \in Workers, NEW u \in Users, NEW t \in Topics, MyVoteTracking(w, u, t)
        PROVE LateInv'
    BY <2>7, <2>a DEF MyVoteTracking, TypeOK
  <2>8. ASSUME ResetLate, UNCHANGED <<pc, req>> PROVE LateInv'
    <3>1. \A v \in Workers, t \in Topics :
             late'[v][t] = IF Accepts(t)' THEN 0 ELSE late[v][t]
      BY <2>8 DEF ResetLate
    <3>2. QED
      BY <2>8, <3>1 DEF LateInv, OneLateVotePerWorker
  <2>9. ASSUME NEW u \in Users, ToggleUser(u) PROVE LateInv'
    BY <2>9, <2>a DEF ToggleUser
  <2>10. CASE UNCHANGED vars
    BY <2>10, <2>a DEF vars
  <2>11. QED
    BY <2>1, <2>2, <2>3, <2>4, <2>5, <2>6, <2>7, <2>8, <2>9, <2>10
    DEF Next, CastStep, UpdateTopicStatus, Tick
<1>3. QED
  BY <1>1, <1>2, Typing, PTL DEF Spec

\* Closing a topic lets at most one more vote through per worker.
THEOREM OneLateVote == Spec => []OneLateVotePerWorker
BY LateInvariant, PTL DEF LateInv

-----------------------------------------------------------------------------
(* The ballot box *)

BallotOf(w) == [user |-> req[w].user, topic |-> req[w].topic, option |-> req[w].option]

\* A handler that is about to log and answer has its ballot in the box.
Landed == \A w \in Workers : pc[w] = "audit" => BallotOf(w) \in ballots

LEMMA BallotsGrow ==
  ASSUME TypeOK, NEW w \in Workers, AddsPair(w)
  PROVE  ballots' = ballots \cup {BallotOf(w)}
<1> DEFINE u == req[w].user  t == req[w].topic  o == req[w].option  n == Len(votes)
           image(v) == [user |-> Voter(v), topic |-> v.topic, option |-> v.option]
<1>1. /\ u \in Users /\ t \in Topics /\ o \in Options
      /\ votes' = Append(votes, NewVote(u, t, o))
  BY DEF AddsPair
<1>2. /\ n \in Nat
      /\ DOMAIN votes = 1 .. n
      /\ DOMAIN votes' = (1 .. n) \cup {n + 1}
      /\ votes'[n + 1] = NewVote(u, t, o)
      /\ \A i \in 1 .. n : votes'[i] = votes[i]
  BY <1>1, RowTypes DEF TypeOK
<1>3. image(votes'[n + 1]) = BallotOf(w)
  BY <1>1, <1>2, RowOwner DEF BallotOf
<1>4. ballots' = {image(votes'[i]) : i \in DOMAIN votes'}
  BY DEF ballots, Voter
<1>5. ballots = {image(votes[i]) : i \in DOMAIN votes}
  BY DEF ballots
<1>6. QED
  <2> HIDE DEF image
  <2> QED  BY <1>2, <1>3, <1>4, <1>5

\* Without a new pair no handler arrives at its audit row.
LEMMA AuditSteps ==
  ASSUME TypeOK, [Next]_vars, UNCHANGED <<votes, vote_tracking>>
  PROVE  \A v \in Workers : pc'[v] = "audit" => pc[v] = "audit" /\ req'[v] = req[v]
<1>a. ASSUME NEW w \in Workers, Return(w)
      PROVE  \A v \in Workers : pc'[v] = "audit" => pc[v] = "audit" /\ req'[v] = req[v]
  BY <1>a DEF Return, TypeOK
<1>b. ASSUME NEW w \in Workers, NEW label \in {"tracking", "commit"}, Goto(w, label)
      PROVE  \A v \in Workers : pc'[v] = "audit" => pc[v] = "audit" /\ req'[v] = req[v]
  BY <1>b DEF Goto, TypeOK
<1>1. ASSUME NEW w \in Workers, CastTopic(w) \/ CastTracking(w)
      PROVE  \A v \in Workers : pc'[v] = "audit" => pc[v] = "audit" /\ req'[v] = req[v]
  BY <1>1, <1>a, <1>b DEF CastTopic, CastTracking
<1>2. ASSUME NEW w \in Workers, CastCommit(w)
      PROVE  \A v \in Workers : pc'[v] = "audit" => pc[v] = "audit" /\ req'[v] = req[v]
  <2>1. votes' # Append(votes, NewVote(req[w].user, req[w].topic, req[w].option))
    <3>1. Len(votes') = Len(votes)
      OBVIOUS
    <3>2. req[w].user \in Users /\ req[w].topic \in Topics /\ req[w].option \in Options
      BY <1>2 DEF CastCommit, TypeOK, Casting
    <3>3. QED
      BY <3>1, <3>2, RowTypes DEF TypeOK
  <2>2. Return(w)
    BY <1>2, <2>1 DEF CastCommit
  <2>3. QED
    BY <2>2, <1>a
<1>3. ASSUME NEW w \in Workers,
             \/ \E logged, answered \in BOOLEAN : CastAudit(w, logged, answered)
             \/ MyVoteRow(w) \/ Abort(w)
      PROVE  \A v \in Workers : pc'[v] = "audit" => pc[v] = "audit" /\ req'[v] = req[v]
  BY <1>3, <1>a DEF CastAudit, MyVoteRow, Abort
<1>4. ASSUME NEW w \in Workers, NEW u \in Users, NEW t \in Topics,
             MyVoteTracking(w, u, t) \/ \E o \in Options : CastUser(w, u, t, o)
      PROVE  \A v \in Workers : pc'[v] = "audit" => pc[v] = "audit" /\ req'[v] = req[v]
  BY <1>4 DEF CastUser, MyVoteTracking, TypeOK
<1>5. CASE UNCHANGED <<pc, req>>
  BY <1>5
<1>6. QED
  BY <1>1, <1>2, <1>3, <1>4, <1>5
  DEF Next, CastStep, UpdateTopicStatus, ToggleUser, Tick, vars

LEMMA LandedInvariant == Spec => []Landed
<1>1. Init => Landed
  BY DEF Init, Landed
<1>2. TypeOK /\ Landed /\ [Next]_vars => Landed'
  <2> SUFFICES ASSUME TypeOK, Landed, [Next]_vars PROVE Landed'
    OBVIOUS
  <2>1. ASSUME NEW w \in Workers, AddsPair(w) PROVE Landed'
    <3>1. ballots' = ballots \cup {BallotOf(w)}
      BY <2>1, BallotsGrow
    <3>2. req' = req /\ \A v \in Workers : pc'[v] = "audit" => pc[v] = "audit" \/ v = w
      BY <2>1 DEF AddsPair, Goto, TypeOK
    <3>3. QED
      BY <3>1, <3>2 DEF Landed, BallotOf
  <2>2. ASSUME votes' = votes,
               \A v \in Workers : pc'[v] = "audit" => pc[v] = "audit" /\ req'[v] = req[v]
        PROVE  Landed'
    <3>1. ballots' = ballots
      BY <2>2 DEF ballots, Voter
    <3>2. QED
      BY <2>2, <3>1 DEF Landed, BallotOf
  <2>3. CASE UNCHANGED <<votes, vote_tracking>>
    <3>1. \A v \in Workers : pc'[v] = "audit" => pc[v] = "audit" /\ req'[v] = req[v]
      BY <2>3, AuditSteps
    <3>2. QED
      BY <2>2, <2>3, <3>1
  <2>4. QED
    BY <2>1, <2>3, TableSteps
<1>3. QED
  BY <1>1, <1>2, Typing, PTL DEF Spec

\* A ballot of u on t is in the box exactly when a pair of theirs is in the tables.
LEMMA BallotsArePairs ==
  ASSUME TypeOK, NEW u \in Users, NEW t \in Topics
  PROVE  Box!HasBallot(u, t) <=> \E i \in 1 .. Len(votes) : By(i, u, t)
<1>1. DOMAIN votes = 1 .. Len(votes)
  BY DEF TypeOK
<1> DEFINE image(v) == [user |-> Voter(v), topic |-> v.topic, option |-> v.option]
<1>2. \A v : image(v).user = Voter(v) /\ image(v).topic = v.topic
  OBVIOUS
<1>3. ballots = {image(votes[i]) : i \in 1 .. Len(votes)}
  BY <1>1 DEF ballots
<1> HIDE DEF image
<1>4. Box!HasBallot(u, t) <=>
        \E i \in 1 .. Len(votes) : image(votes[i]).user = u /\ image(votes[i]).topic = t
  BY <1>3 DEF Box!HasBallot
<1>5. QED
  BY <1>2, <1>4 DEF By

boxTold == {a \in told : a[1] \in {"recorded", "already"}}

\* The tables, the handlers and the answers of VotingService implement BallotBox.
THEOREM Implements == Spec => ImplementsBallotBox
<1>1. Init => Box!Init
  BY DEF Init, Box!Init, ballots
<1>2. /\ TypeOK /\ TableInv /\ Landed /\ [Next]_vars
      => [Box!Next]_<<ballots, boxTold>>
  <2> SUFFICES ASSUME TypeOK, TableInv, Landed, [Next]_vars
               PROVE  Box!Next \/ UNCHANGED <<ballots, boxTold>>
    OBVIOUS
  <2>a. ASSUME votes' = votes PROVE ballots' = ballots
    BY <2>a DEF ballots, Voter
  <2>b. ASSUME NEW u \in Users, NEW t \in Topics, votes' = votes,
               \E i \in 1 .. Len(votes) : By(i, u, t),
               told' = told \cup {<<"already", u, t>>}
        PROVE  Box!Next
    <3>1. boxTold' = boxTold \cup {<<"already", u, t>>}
      BY <2>b DEF boxTold
    <3>2. Box!HasBallot(u, t) /\ ballots' = ballots
      BY <2>a, <2>b, BallotsArePairs
    <3>3. Box!Deny(u, t)
      BY <3>1, <3>2 DEF Box!Deny, boxTold
    <3>4. QED
      BY <3>3 DEF Box!Next
  <2>c. ASSUME NEW b \in Box!Ballot, Box!Confirm(b) PROVE Box!Next
    BY <2>c DEF Box!Next
  <2>1. ASSUME NEW w \in Workers, AddsPair(w) PROVE Box!Next
    <3>1. /\ req[w].user \in Users /\ req[w].topic \in Topics /\ req[w].option \in Options
          /\ Unique(NewTracking(req[w].user, req[w].topic))
          /\ pc[w] = "commit" /\ told' = told
      BY <2>1 DEF AddsPair
    <3>2. ~Box!HasBallot(req[w].user, req[w].topic)
      BY <3>1, Lookups, BallotsArePairs DEF TableInv
    <3>3. TopicOf[req[w].option] = req[w].topic
      BY <3>1 DEF TableInv, Handlers
    <3>4. ballots' = ballots \cup {BallotOf(w)} /\ boxTold' = boxTold
      BY <2>1, <3>1, BallotsGrow DEF boxTold
    <3>5. BallotOf(w) \in Box!Ballot
      BY <3>1 DEF BallotOf, Box!Ballot
    <3>6. /\ BallotOf(w).user = req[w].user /\ BallotOf(w).topic = req[w].topic
          /\ BallotOf(w).option = req[w].option
      BY DEF BallotOf
    <3>7. Box!Cast(BallotOf(w))
      BY <3>2, <3>3, <3>4, <3>6 DEF Box!Cast, boxTold
    <3>8. QED
      BY <3>5, <3>7 DEF Box!Next
  <2>2. ASSUME NEW w \in Workers, CastTracking(w)
        PROVE Box!Next \/ UNCHANGED <<ballots, boxTold>>
    <3>1. req[w].user \in Users /\ req[w].topic \in Topics /\ votes' = votes
      BY <2>2 DEF CastTracking, TypeOK, Casting
    <3>2. CASE told' = told
      BY <2>a, <3>1, <3>2 DEF boxTold
    <3>3. CASE /\ has_voted(req[w].user, req[w].topic)
               /\ told' = told \cup {<<"already", req[w].user, req[w].topic>>}
      BY <2>b, <3>1, <3>3, Lookups DEF TableInv
    <3>4. QED
      BY <2>2, <3>2, <3>3 DEF CastTracking
  <2>3. ASSUME NEW w \in Workers, CastCommit(w)
        PROVE Box!Next \/ UNCHANGED <<ballots, boxTold>>
    <3>1. req[w].user \in Users /\ req[w].topic \in Topics /\ req[w].option \in Options
      BY <2>3 DEF CastCommit, TypeOK, Casting
    <3>2. CASE Unique(NewTracking(req[w].user, req[w].topic))
      <4>1. AddsPair(w)
        BY <2>3, <3>1, <3>2 DEF CastCommit, AddsPair
      <4>2. QED
        BY <2>1, <4>1
    <3>3. CASE ~Unique(NewTracking(req[w].user, req[w].topic))
      <4>1. /\ votes' = votes
            /\ told' = told \cup {<<"already", req[w].user, req[w].topic>>}
        BY <2>3, <3>3 DEF CastCommit
      <4>2. QED
        BY <2>b, <3>1, <3>3, <4>1, Lookups DEF TableInv
    <3>4. QED
      BY <3>2, <3>3
  <2>4. ASSUME NEW w \in Workers, NEW logged \in BOOLEAN, NEW answered \in BOOLEAN,
               CastAudit(w, logged, answered)
        PROVE Box!Next \/ UNCHANGED <<ballots, boxTold>>
    <3>1. /\ votes' = votes /\ ballots' = ballots /\ BallotOf(w) \in ballots
          /\ told' = IF answered THEN told \cup {<<"recorded", BallotOf(w)>>} ELSE told
      BY <2>4, <2>a DEF CastAudit, Landed, BallotOf
    <3>2. CASE told' = told
      BY <3>1, <3>2 DEF boxTold
    <3>3. CASE told' = told \cup {<<"recorded", BallotOf(w)>>}
      <4>1. boxTold' = boxTold \cup {<<"recorded", BallotOf(w)>>}
        BY <3>3 DEF boxTold
      <4>2. BallotOf(w) \in Box!Ballot
        BY <2>4 DEF CastAudit, TypeOK, Casting, BallotOf, Box!Ballot
      <4>3. PICK b \in Box!Ballot : b = BallotOf(w)
        BY <4>2
      <4>4. Box!Confirm(b)
        BY <3>1, <4>1, <4>3 DEF Box!Confirm, boxTold
      <4>5. QED
        BY <2>c, <4>4
    <3>4. QED
      BY <3>1, <3>2, <3>3
  <2>5. ASSUME NEW w \in Workers, MyVoteRow(w) PROVE UNCHANGED <<ballots, boxTold>>
    <3> DEFINE u == req[w].user  t == req[w].topic
               mine(i) == [user |-> u, topic |-> t, option |-> votes[i].option]
    <3>1. votes' = votes
      BY <2>5 DEF MyVoteRow
    <3>2. CASE told' = told \cup {<<"missing", u, t>>}
      BY <2>a, <3>1, <3>2 DEF boxTold
    <3>3. ASSUME NEW i \in VotesOf(u, t), told' = told \cup {<<"mine", mine(i)>>}
          PROVE  UNCHANGED <<ballots, boxTold>>
      BY <2>a, <3>1, <3>3 DEF boxTold
    <3>4. \/ \E i \in VotesOf(u, t) : told' = told \cup {<<"mine", mine(i)>>}
          \/ told' = told \cup {<<"missing", u, t>>}
      BY <2>5 DEF MyVoteRow
    <3>5. QED
      BY <3>2, <3>3, <3>4
  <2>6. CASE UNCHANGED <<votes, told>>
    BY <2>6, <2>a DEF boxTold
  <2>7. QED
    BY <2>2, <2>3, <2>4, <2>5, <2>6
    DEF Next, CastStep, CastUser, CastTopic, MyVoteTracking, Abort, UpdateTopicStatus,
        ToggleUser, Tick, vars
<1>3. QED
  BY <1>1, <1>2, Typing, TableInvariant, LandedInvariant, PTL
  DEF Spec, ImplementsBallotBox, Box!Spec, boxTold

-----------------------------------------------------------------------------
(* What the audit log and /my-vote say *)

\* A ballot in the box is a row of its resident in the table.
LEMMA BallotRow ==
  ASSUME TypeOK, Paired, NEW b \in ballots
  PROVE  \E i \in VotesOf(b.user, b.topic) : votes[i].option = b.option
<1>1. PICK i \in DOMAIN votes :
         b = [user |-> Voter(votes[i]), topic |-> votes[i].topic, option |-> votes[i].option]
  BY DEF ballots
<1>2. i \in 1 .. Len(votes)
  BY DEF TypeOK
<1>3. PICK u \in Users, t \in Topics, o \in Options : votes[i] = NewVote(u, t, o)
  BY <1>2 DEF Paired
<1>4. b.user = u /\ b.topic = t /\ votes[i].option = b.option /\ By(i, u, t)
  BY <1>1, <1>2, <1>3, RowOwner DEF By
<1>5. i \in VotesOf(u, t)
  BY <1>4, Lookups
<1>6. QED
  BY <1>4, <1>5

\* The pair a handler adds is the first of its resident on the topic.
LEMMA AddsFirst ==
  ASSUME TypeOK, TableInv, NEW w \in Workers, AddsPair(w)
  PROVE  ~Box!HasBallot(req[w].user, req[w].topic)
<1>1. /\ req[w].user \in Users /\ req[w].topic \in Topics
      /\ Unique(NewTracking(req[w].user, req[w].topic))
  BY DEF AddsPair
<1>2. QED
  BY <1>1, Lookups, BallotsArePairs DEF TableInv

Logged(u, t) ==
    \E k \in DOMAIN audit_logs : audit_logs[k].user = u /\ audit_logs[k].topic = t

AuditInv ==
    /\ \A k \in DOMAIN audit_logs : audit_logs[k] \in ballots
    /\ \A k, l \in DOMAIN audit_logs :
          audit_logs[k].user = audit_logs[l].user /\ audit_logs[k].topic = audit_logs[l].topic
          => k = l
    /\ \A w \in Workers : pc[w] = "audit" => ~Logged(req[w].user, req[w].topic)
    /\ \A v, w \in Workers :
          pc[v] = "audit" /\ pc[w] = "audit"
          /\ req[v].user = req[w].user /\ req[v].topic = req[w].topic => v = w

LEMMA AuditInvariant == Spec => []AuditInv
<1>1. Init => AuditInv
  BY DEF Init, AuditInv, Logged
<1>2. TypeOK /\ TableInv /\ Landed /\ AuditInv /\ [Next]_vars => AuditInv'
  <2> SUFFICES ASSUME TypeOK, TableInv, Landed, AuditInv, [Next]_vars PROVE AuditInv'
    OBVIOUS
  <2>1. ASSUME NEW w \in Workers, AddsPair(w) PROVE AuditInv'
    <3>1. ballots' = ballots \cup {BallotOf(w)} /\ ~Box!HasBallot(req[w].user, req[w].topic)
      BY <2>1, BallotsGrow, AddsFirst
    <3>2. /\ audit_logs' = audit_logs /\ req' = req
          /\ \A v \in Workers : pc'[v] = "audit" => pc[v] = "audit" \/ v = w
      BY <2>1 DEF AddsPair, Goto, TypeOK
    <3>3. ~Logged(req[w].user, req[w].topic)
      BY <3>1 DEF AuditInv, Logged, Box!HasBallot
    <3>4. \A v \in Workers :
             pc[v] = "audit" => ~(req[v].user = req[w].user /\ req[v].topic = req[w].topic)
      BY <3>1 DEF Landed, BallotOf, Box!HasBallot
    <3>5. QED
      BY <3>1, <3>2, <3>3, <3>4 DEF AuditInv, Logged
  <2>2. ASSUME NEW w \in Workers, NEW logged \in BOOLEAN, NEW answered \in BOOLEAN,
               CastAudit(w, logged, answered)
        PROVE  AuditInv'
    <3> DEFINE a == BallotOf(w)  n == Len(audit_logs)
    <3>1. /\ pc[w] = "audit" /\ a \in ballots /\ ballots' = ballots
          /\ audit_logs' = audit_logs \/ audit_logs' = Append(audit_logs, a)
      BY <2>2 DEF CastAudit, Landed, BallotOf, ballots, Voter
    <3>2. pc'[w] = "idle" /\ \A v \in Workers : v # w => pc'[v] = pc[v] /\ req'[v] = req[v]
      BY <2>2 DEF CastAudit, Return, TypeOK
    <3>3. CASE audit_logs' = audit_logs
      BY <3>1, <3>2, <3>3 DEF AuditInv, Logged
    <3>4. CASE audit_logs' = Append(audit_logs, a)
      <4>1. a.user = req[w].user /\ a.topic = req[w].topic
        BY DEF BallotOf
      <4>2. a \in AuditLog
        BY <2>2 DEF CastAudit, TypeOK, Casting, BallotOf, AuditLog
      <4>3. /\ n \in Nat /\ DOMAIN audit_logs = 1 .. n /\ DOMAIN audit_logs' = 1 .. n + 1
            /\ audit_logs'[n + 1] = a /\ \A k \in 1 .. n : audit_logs'[k] = audit_logs[k]
        BY <3>4, <4>2 DEF TypeOK
      <4> HIDE DEF a, n
      <4>4. ~Logged(a.user, a.topic)
        BY <3>1, <4>1 DEF AuditInv
      <4>5. \A k \in 1 .. n + 1 : k \in 1 .. n \/ k = n + 1
        BY <4>3
      <4>6. \A k \in DOMAIN audit_logs' : audit_logs'[k] \in ballots'
        BY <3>1, <4>3, <4>5 DEF AuditInv
      <4>7. \A k, l \in DOMAIN audit_logs' :
               audit_logs'[k].user = audit_logs'[l].user /\ audit_logs'[k].topic = audit_logs'[l].topic
               => k = l
        BY <4>3, <4>4, <4>5 DEF AuditInv, Logged
      <4>8. ASSUME NEW v \in Workers, pc'[v] = "audit" PROVE ~Logged(req[v].user, req[v].topic)'
        <5>1. v # w /\ pc[v] = "audit" /\ req'[v] = req[v]
          BY <3>2, <4>8
        <5>2. ~Logged(req[v].user, req[v].topic) /\ ~(req[v].user = a.user /\ req[v].topic = a.topic)
          BY <3>1, <4>1, <5>1 DEF AuditInv
        <5>3. QED
          BY <4>3, <4>5, <5>1, <5>2 DEF Logged
      <4>9. QED
        BY <3>2, <4>6, <4>7, <4>8 DEF AuditInv
    <3>5. QED
      BY <3>1, <3>3, <3>4
  <2>3. CASE UNCHANGED <<votes, vote_tracking, audit_logs>>
    <3>1. /\ ballots' = ballots
          /\ \A v \in Workers : pc'[v] = "audit" => pc[v] = "audit" /\ req'[v] = req[v]
      BY <2>3, AuditSteps DEF ballots, Voter
    <3>2. QED
      BY <2>3, <3>1 DEF AuditInv, Logged
  <2>4. UNCHANGED audit_logs \/ \E w \in Workers, logged, answered \in BOOLEAN : CastAudit(w, logged, answered)
    BY DEF Next, CastStep, CastUser, CastTopic, CastTracking, CastCommit, MyVoteTracking, MyVoteRow,
           Abort, UpdateTopicStatus, ToggleUser, Tick, vars
  <2>5. QED
    BY <2>1, <2>2, <2>3, <2>4, TableSteps
<1>3. QED
  BY <1>1, <1>2, Typing, TableInvariant, LandedInvariant, PTL DEF Spec

\* NoPhantomAudit: the audit log claims no vote that is not counted, and none twice.
THEOREM NoPhantom == Spec => []NoPhantomAudit
<1>1. TypeOK /\ TableInv /\ AuditInv => NoPhantomAudit
  BY BallotRow DEF TableInv, AuditInv, NoPhantomAudit
<1>2. QED
  BY <1>1, Typing, TableInvariant, AuditInvariant, PTL

MineInv ==
    /\ \A a \in told : a[1] # "missing" /\ (a[1] = "mine" => a[2] \in ballots)
    /\ \A w \in Workers : pc[w] = "myvote" => Box!HasBallot(req[w].user, req[w].topic)

LEMMA MineInvariant == Spec => []MineInv
<1>1. Init => MineInv
  BY DEF Init, MineInv
<1>2. TypeOK /\ TableInv /\ MineInv /\ [Next]_vars => MineInv'
  <2> SUFFICES ASSUME TypeOK, TableInv, MineInv, [Next]_vars PROVE MineInv'
    OBVIOUS
  <2>1. ballots \subseteq ballots'
    <3>1. CASE UNCHANGED <<votes, vote_tracking>>
      BY <3>1 DEF ballots, Voter
    <3>2. ASSUME NEW w \in Workers, AddsPair(w) PROVE ballots \subseteq ballots'
      BY <3>2, BallotsGrow
    <3>3. QED
      BY <3>1, <3>2, TableSteps
  <2>2. ASSUME NEW u, NEW t, Box!HasBallot(u, t) PROVE Box!HasBallot(u, t)'
    BY <2>1, <2>2 DEF Box!HasBallot
  <2>a. ASSUME NEW w \in Workers, Return(w)
        PROVE  \A v \in Workers : pc'[v] = "myvote" => pc[v] = "myvote" /\ req'[v] = req[v]
    BY <2>a DEF Return, TypeOK
  <2>b. ASSUME NEW w \in Workers, NEW label \in Casting, Goto(w, label)
        PROVE  \A v \in Workers : pc'[v] = "myvote" => pc[v] = "myvote" /\ req'[v] = req[v]
    BY <2>b DEF Goto, TypeOK, Casting
  <2>c. ASSUME \A v \in Workers : pc'[v] = "myvote" => pc[v] = "myvote" /\ req'[v] = req[v],
               \A a \in told' : a \in told \/ (a[1] # "missing" /\ (a[1] = "mine" => a[2] \in ballots'))
        PROVE  MineInv'
    BY <2>1, <2>2, <2>c DEF MineInv
  <2>3. ASSUME NEW w \in Workers, MyVoteRow(w) PROVE MineInv'
    <3> DEFINE u == req[w].user  t == req[w].topic
               mine(i) == [user |-> u, topic |-> t, option |-> votes[i].option]
    <3>1. /\ pc[w] = "myvote" /\ u \in Users /\ t \in Topics /\ Return(w)
          /\ \/ \E i \in VotesOf(u, t) : told' = told \cup {<<"mine", mine(i)>>}
             \/ VotesOf(u, t) = {} /\ told' = told \cup {<<"missing", u, t>>}
      BY <2>3 DEF MyVoteRow, TypeOK
    <3>2. PICK i \in 1 .. Len(votes) : By(i, u, t)
      BY <3>1, BallotsArePairs DEF MineInv
    <3>3. VotesOf(u, t) # {}
      BY <3>1, <3>2, Lookups DEF TableInv
    <3>4. PICK j \in VotesOf(u, t) : told' = told \cup {<<"mine", mine(j)>>}
      BY <3>1, <3>3
    <3>5. j \in DOMAIN votes /\ votes[j].topic = t /\ Voter(votes[j]) = u
      BY <3>1, <3>4, Lookups DEF TableInv, By, VotesOf
    <3>6. mine(j) \in ballots
      BY <3>5 DEF ballots
    <3>7. \A a \in told' : a \in told \/ (a[1] # "missing" /\ (a[1] = "mine" => a[2] \in ballots'))
      <4> HIDE DEF mine
      <4> QED  BY <2>1, <3>4, <3>6
    <3>8. QED
      BY <2>a, <2>c, <3>1, <3>7
  <2>4. ASSUME NEW w \in Workers, NEW u \in Users, NEW t \in Topics, MyVoteTracking(w, u, t)
        PROVE  MineInv'
    <3>1. Box!HasBallot(u, t) /\ told' = told
      BY <2>4, Lookups, BallotsArePairs DEF MyVoteTracking, TableInv
    <3>2. /\ pc'[w] = "myvote" /\ req'[w].user = u /\ req'[w].topic = t
          /\ \A v \in Workers : v # w => pc'[v] = pc[v] /\ req'[v] = req[v]
      BY <2>4 DEF MyVoteTracking, TypeOK
    <3>3. QED
      BY <2>1, <2>2, <3>1, <3>2 DEF MineInv
  <2>5. ASSUME NEW w \in Workers, NEW logged \in BOOLEAN, NEW answered \in BOOLEAN,
               CastAudit(w, logged, answered)
        PROVE  MineInv'
    <3> DEFINE b == [user |-> req[w].user, topic |-> req[w].topic, option |-> req[w].option]
    <3>1. Return(w) /\ (told' = told \/ told' = told \cup {<<"recorded", b>>})
      BY <2>5 DEF CastAudit
    <3> HIDE DEF b
    <3>2. QED
      BY <2>a, <2>c, <3>1
  <2>6. ASSUME NEW w \in Workers, CastTopic(w) \/ CastTracking(w) \/ CastCommit(w) PROVE MineInv'
    <3>1. \/ told' = told
          \/ told' = told \cup {<<"already", req[w].user, req[w].topic>>}
      BY <2>6 DEF CastTopic, CastTracking, CastCommit
    <3>2. Return(w) \/ \E label \in Casting : Goto(w, label)
      BY <2>6 DEF CastTopic, CastTracking, CastCommit, Casting
    <3>3. QED
      BY <2>a, <2>b, <2>c, <3>1, <3>2
  <2>7. ASSUME NEW w \in Workers, NEW u \in Users, NEW t \in Topics, NEW o \in Options,
               CastUser(w, u, t, o)
        PROVE  MineInv'
    <3>1. \A v \in Workers : pc'[v] = "myvote" => pc[v] = "myvote" /\ req'[v] = req[v]
      BY <2>7 DEF CastUser, TypeOK
    <3>2. QED
      BY <2>7, <2>c, <3>1 DEF CastUser
  <2>8. ASSUME NEW w \in Workers, Abort(w) PROVE MineInv'
    BY <2>8, <2>a, <2>c DEF Abort
  <2>9. CASE UNCHANGED <<pc, req, told>>
    BY <2>9, <2>c
  <2>10. QED
    BY <2>3, <2>4, <2>5, <2>6, <2>7, <2>8, <2>9
    DEF Next, CastStep, UpdateTopicStatus, ToggleUser, Tick, vars
<1>3. QED
  BY <1>1, <1>2, Typing, TableInvariant, PTL DEF Spec

\* MyVoteHonest: a voter is never told that the vote record is missing, and is told the
\* option that is counted.
THEOREM MineHonest == Spec => []MyVoteHonest
<1>1. TypeOK /\ TableInv /\ MineInv => MyVoteHonest
  BY BallotRow DEF TableInv, MineInv, MyVoteHonest
<1>2. QED
  BY <1>1, Typing, TableInvariant, MineInvariant, PTL

\* ListedIffAccepted: the list shows the topics on which a vote is accepted, no others,
\* for all windows and clocks.
THEOREM ListedAccepted == Spec => []ListedIffAccepted
<1>1. TypeOK => ListedIffAccepted
  BY DEF ListedIffAccepted, get_active_topics, Accepts, is_within_window
<1>2. QED
  BY <1>1, Typing, PTL
=============================================================================
