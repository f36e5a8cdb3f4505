----------------------------- MODULE VotingService -----------------------------
(***************************************************************************)
(* backend/services/voting_service.py over the votes, vote_tracking,       *)
(* topics and audit_logs tables, run by several gunicorn workers on one    *)
(* SQLite file, while administrators change topics and accounts.           *)
(*                                                                         *)
(* A step is one SELECT (autocommitted: it sees the last committed state)  *)
(* or one write transaction (the first INSERT takes the write lock, held   *)
(* to the COMMIT).  Options, modes and time windows are never updated by   *)
(* the code: they are constants, and their SELECT is part of the step      *)
(* before it.  A request refused by its first SELECT stutters.             *)
(***************************************************************************)
EXTENDS Integers, Sequences

CONSTANTS
    Users, Topics, Options, Workers,
    TopicOf,        \* option -> topic (options.topic_id)
    Mode,           \* topic -> "anonymous" or "identified"
    start_time,     \* topic -> time or NULL
    end_time,       \* topic -> time or NULL
    Statuses,       \* the topic statuses in use; the service tells "active" from the others
    MaxTime,        \* bound: the clock stops here
    NULL

TopicStatus == {"draft", "active", "closed", "disabled"}

\* HMAC-SHA256(user_id:topic_id) as a term: injective in both arguments.
anon_hash(u, t) == <<u, t>>

ASSUME VotingAssumption ==
    /\ TopicOf \in [Options -> Topics]
    /\ Mode \in [Topics -> {"anonymous", "identified"}]
    /\ start_time \in [Topics -> Nat \cup {NULL}]
    /\ end_time \in [Topics -> Nat \cup {NULL}]
    /\ Statuses \subseteq TopicStatus
    /\ MaxTime \in Nat
    /\ NULL \notin Users
    /\ \A u \in Users, t \in Topics : anon_hash(u, t) # NULL

VARIABLES
    now,            \* datetime.utcnow()
    status,         \* topics.status
    authorised,     \* users.status = APPROVED and users.is_active
    votes,          \* the table; the position of a row is its id
    vote_tracking,  \* the table
    audit_logs,     \* the VOTE_CAST rows of the table
    pc,             \* per worker: where the running handler is
    req,            \* per worker: what was asked
    told,           \* history: the answers voters received
    late            \* history: votes a worker committed to a topic since the
                    \* topic was last open (counted up to 2)

vars == <<now, status, authorised, votes, vote_tracking, audit_logs, pc, req, told, late>>

Vote == [topic : Topics, option : Options, user_id : Users \cup {NULL},
         hashed_user_id : (Users \X Topics) \cup {NULL}]
VoteTracking == [topic : Topics, user_id : Users \cup {NULL},
                 hashed_user_id : (Users \X Topics) \cup {NULL}]
AuditLog == [user : Users, topic : Topics, option : Options]
Request == [user : Users \cup {NULL}, topic : Topics \cup {NULL}, option : Options \cup {NULL}]
NoRequest == [user |-> NULL, topic |-> NULL, option |-> NULL]

Casting == {"topic", "tracking", "commit", "audit"}

TypeOK ==
    /\ now \in Nat
    /\ status \in [Topics -> Statuses]
    /\ authorised \in [Users -> BOOLEAN]
    /\ votes \in Seq(Vote)
    /\ vote_tracking \in Seq(VoteTracking)
    /\ audit_logs \in Seq(AuditLog)
    /\ pc \in [Workers -> {"idle", "myvote"} \cup Casting]
    /\ req \in [Workers -> Request]
    /\ \A w \in Workers :
          /\ pc[w] # "idle" => req[w].user \in Users /\ req[w].topic \in Topics
          /\ pc[w] \in Casting => req[w].option \in Options
    /\ late \in [Workers -> [Topics -> 0 .. 2]]

Init ==
    /\ now = 0
    /\ status \in [Topics -> Statuses]
    /\ authorised \in [Users -> BOOLEAN]
    /\ votes = <<>>
    /\ vote_tracking = <<>>
    /\ audit_logs = <<>>
    /\ pc = [w \in Workers |-> "idle"]
    /\ req = [w \in Workers |-> NoRequest]
    /\ told = {}
    /\ late = [w \in Workers |-> [t \in Topics |-> 0]]

Return(w) ==
    /\ pc' = [pc EXCEPT ![w] = "idle"]
    /\ req' = [req EXCEPT ![w] = NoRequest]

Goto(w, label) ==
    /\ pc' = [pc EXCEPT ![w] = label]
    /\ UNCHANGED req

-----------------------------------------------------------------------------
(* Helpers *)

is_within_window(t) ==
    /\ start_time[t] # NULL => start_time[t] <= now
    /\ end_time[t] # NULL => end_time[t] >= now

\* Variant: the list drops a topic at its very last instant.
get_active_topics_strict ==
    {t \in Topics : /\ status[t] = "active"
                    /\ start_time[t] # NULL => start_time[t] <= now
                    /\ end_time[t] # NULL => end_time[t] > now}

get_active_topics ==
    {t \in Topics : /\ status[t] = "active"
                    /\ start_time[t] = NULL \/ start_time[t] <= now
                    /\ end_time[t] = NULL \/ end_time[t] >= now}

\* cast_vote's view of an open topic.
Accepts(t) == status[t] = "active" /\ is_within_window(t)

\* The identity columns of a vote and of its tracking row, by mode.
Identity(u, t) ==
    IF Mode[t] = "identified"
    THEN [user_id |-> u, hashed_user_id |-> NULL]
    ELSE [user_id |-> NULL, hashed_user_id |-> anon_hash(u, t)]

\* How the SELECTs recognise a resident's row of topic t.
IsBy(row, u, t) ==
    IF Mode[t] = "identified" THEN row.user_id = u
                              ELSE row.hashed_user_id = anon_hash(u, t)

has_voted(u, t) ==
    \E i \in DOMAIN vote_tracking :
        vote_tracking[i].topic = t /\ IsBy(vote_tracking[i], u, t)

\* Variant: no UNIQUE constraint, has_voted alone guards the insert.
UniqueUnchecked(row) == TRUE

\* Variant: the constraint on the hash is missing.
UniqueUser(row) ==
    \A i \in DOMAIN vote_tracking :
        vote_tracking[i].topic = row.topic /\ row.user_id # NULL
        => vote_tracking[i].user_id # row.user_id

\* UNIQUE (topic_id, user_id) and UNIQUE (topic_id, hashed_user_id): in SQL two
\* NULLs are not equal.
Unique(row) ==
    \A i \in DOMAIN vote_tracking :
        LET old == vote_tracking[i] IN
        old.topic = row.topic =>
            /\ old.user_id # NULL => old.user_id # row.user_id
            /\ old.hashed_user_id # NULL => old.hashed_user_id # row.hashed_user_id

NewTracking(u, t) ==
    [topic |-> t, user_id |-> Identity(u, t).user_id,
     hashed_user_id |-> Identity(u, t).hashed_user_id]

NewVote(u, t, o) ==
    [topic |-> t, option |-> o, user_id |-> Identity(u, t).user_id,
     hashed_user_id |-> Identity(u, t).hashed_user_id]

-----------------------------------------------------------------------------
(* cast_vote: steps of one handler *)

\* Variant: a request without an option is let through.
CastUserNoOption(w, u, t, o) ==
    /\ pc[w] = "idle"
    /\ authorised[u]
    /\ pc' = [pc EXCEPT ![w] = "topic"]
    /\ \E choice \in {o, NULL} :
          req' = [req EXCEPT ![w] = [user |-> u, topic |-> t, option |-> choice]]
    /\ UNCHANGED <<now, status, authorised, votes, vote_tracking, audit_logs, told, late>>

\* The user row is reloaded (verify_otp committed just before) and checked.
CastUser(w, u, t, o) ==
    /\ pc[w] = "idle"
    /\ authorised[u]
    /\ pc' = [pc EXCEPT ![w] = "topic"]
    /\ req' = [req EXCEPT ![w] = [user |-> u, topic |-> t, option |-> o]]
    /\ UNCHANGED <<now, status, authorised, votes, vote_tracking, audit_logs, told, late>>

\* Variant: the topic's status is not looked at.
CastTopicAnyStatus(w) ==
    /\ pc[w] = "topic"
    /\ IF is_within_window(req[w].topic) /\ TopicOf[req[w].option] = req[w].topic
       THEN Goto(w, "tracking")
       ELSE Return(w)
    /\ UNCHANGED <<now, status, authorised, votes, vote_tracking, audit_logs, told, late>>

\* Variant: an option of another topic is let through.
CastTopicAnyOption(w) ==
    /\ pc[w] = "topic"
    /\ IF Accepts(req[w].topic) THEN Goto(w, "tracking") ELSE Return(w)
    /\ UNCHANGED <<now, status, authorised, votes, vote_tracking, audit_logs, told, late>>

\* Status, window, and that the option belongs to the topic.
CastTopic(w) ==
    LET t == req[w].topic IN
    /\ pc[w] = "topic"
    /\ IF Accepts(t) /\ TopicOf[req[w].option] = t
       THEN Goto(w, "tracking")
       ELSE Return(w)
    /\ UNCHANGED <<now, status, authorised, votes, vote_tracking, audit_logs, told, late>>

\* has_voted
CastTracking(w) ==
    LET u == req[w].user  t == req[w].topic IN
    /\ pc[w] = "tracking"
    /\ \/ /\ has_voted(u, t)
          /\ told' = told \cup {<<"already", u, t>>}
          /\ Return(w)
       \/ /\ ~has_voted(u, t)
          /\ Goto(w, "commit")
          /\ UNCHANGED told
    /\ UNCHANGED <<now, status, authorised, votes, vote_tracking, audit_logs, late>>

CountLate(w, t) ==
    late' = IF Accepts(t) \/ late[w][t] = 2 THEN late
            ELSE [late EXCEPT ![w] = [late[w] EXCEPT ![t] = late[w][t] + 1]]

\* Variant: each INSERT is committed on its own; the second one, the vote, may fail.
CastCommitTorn(w) ==
    LET u == req[w].user  t == req[w].topic  new == NewTracking(u, t) IN
    /\ pc[w] = "commit"
    /\ \/ /\ Unique(new)
          /\ vote_tracking' = Append(vote_tracking, new)
          /\ \/ votes' = Append(votes, NewVote(u, t, req[w].option)) /\ Goto(w, "audit")
             \/ UNCHANGED votes /\ Return(w)
          /\ UNCHANGED told
       \/ /\ ~Unique(new)
          /\ told' = told \cup {<<"already", u, t>>}
          /\ Return(w)
          /\ UNCHANGED <<votes, vote_tracking>>
    /\ UNCHANGED <<now, status, authorised, audit_logs, late>>

\* Variant: the IntegrityError is swallowed and the handler goes on.
CastCommitSwallow(w) ==
    LET u == req[w].user  t == req[w].topic  new == NewTracking(u, t) IN
    /\ pc[w] = "commit"
    /\ votes' = IF Unique(new) THEN Append(votes, NewVote(u, t, req[w].option)) ELSE votes
    /\ vote_tracking' = IF Unique(new) THEN Append(vote_tracking, new) ELSE vote_tracking
    /\ Goto(w, "audit")
    /\ UNCHANGED <<now, status, authorised, audit_logs, told, late>>

\* Variant: a handler that meets the constraint waits instead of answering.
CastCommitWait(w) ==
    LET u == req[w].user  t == req[w].topic  new == NewTracking(u, t) IN
    /\ pc[w] = "commit"
    /\ Unique(new)
    /\ votes' = Append(votes, NewVote(u, t, req[w].option))
    /\ vote_tracking' = Append(vote_tracking, new)
    /\ Goto(w, "audit")
    /\ UNCHANGED <<now, status, authorised, audit_logs, told, late>>

\* INSERT vote, INSERT tracking, COMMIT; on IntegrityError both are rolled back.
CastCommit(w) ==
    LET u == req[w].user  t == req[w].topic  new == NewTracking(u, t) IN
    /\ pc[w] = "commit"
    /\ \/ /\ Unique(new)
          /\ votes' = Append(votes, NewVote(u, t, req[w].option))
          /\ vote_tracking' = Append(vote_tracking, new)
          /\ CountLate(w, t)
          /\ Goto(w, "audit")
          /\ UNCHANGED told
       \/ /\ ~Unique(new)
          /\ told' = told \cup {<<"already", u, t>>}
          /\ Return(w)
          /\ UNCHANGED <<votes, vote_tracking, late>>
    /\ UNCHANGED <<now, status, authorised, audit_logs>>

\* AuditService.log in a transaction of its own: a failure is swallowed
\* (audit_service.py:38-41).  Then the answer, if the connection still stands.
CastAudit(w, logged, answered) ==
    LET ballot == [user |-> req[w].user, topic |-> req[w].topic, option |-> req[w].option] IN
    /\ pc[w] = "audit"
    /\ audit_logs' = IF logged THEN Append(audit_logs, ballot) ELSE audit_logs
    /\ told' = IF answered THEN told \cup {<<"recorded", ballot>>} ELSE told
    /\ Return(w)
    /\ UNCHANGED <<now, status, authorised, votes, vote_tracking, late>>

-----------------------------------------------------------------------------
(* get_my_vote: the tracking row, then the vote row *)

MyVoteTracking(w, u, t) ==
    /\ pc[w] = "idle"
    /\ has_voted(u, t)
    /\ pc' = [pc EXCEPT ![w] = "myvote"]
    /\ req' = [req EXCEPT ![w] = [user |-> u, topic |-> t, option |-> NULL]]
    /\ UNCHANGED <<now, status, authorised, votes, vote_tracking, audit_logs, told, late>>

VotesOf(u, t) == {i \in DOMAIN votes : votes[i].topic = t /\ IsBy(votes[i], u, t)}

\* "Vote record not found." is the answer <<"missing", u, t>>.
MyVoteRow(w) ==
    LET u == req[w].user  t == req[w].topic IN
    /\ pc[w] = "myvote"
    /\ \/ \E i \in VotesOf(u, t) :
             told' = told \cup {<<"mine", [user |-> u, topic |-> t, option |-> votes[i].option]>>}
       \/ /\ VotesOf(u, t) = {}
          /\ told' = told \cup {<<"missing", u, t>>}
    /\ Return(w)
    /\ UNCHANGED <<now, status, authorised, votes, vote_tracking, audit_logs, late>>

-----------------------------------------------------------------------------
(* Administrators, clock, failures *)

ResetLate == late' = [w \in Workers |-> [t \in Topics |-> IF Accepts(t)' THEN 0 ELSE late[w][t]]]

\* admin_service.update_topic_status: any status to any other.
UpdateTopicStatus(t, new) ==
    /\ status' = [status EXCEPT ![t] = new]
    /\ UNCHANGED <<now, authorised, votes, vote_tracking, audit_logs, pc, req, told>>
    /\ ResetLate

\* admin_service.toggle_user, and approve_user for a new resident.
ToggleUser(u) ==
    /\ authorised' = [authorised EXCEPT ![u] = ~authorised[u]]
    /\ UNCHANGED <<now, status, votes, vote_tracking, audit_logs, pc, req, told, late>>

\* The handler or its worker dies between two steps; nothing uncommitted survives.
Abort(w) ==
    /\ pc[w] # "idle"
    /\ Return(w)
    /\ UNCHANGED <<now, status, authorised, votes, vote_tracking, audit_logs, told, late>>

Tick ==
    /\ now < MaxTime
    /\ now' = now + 1
    /\ UNCHANGED <<status, authorised, votes, vote_tracking, audit_logs, pc, req, told>>
    /\ ResetLate

CastStep(w) ==
    \/ CastTopic(w)
    \/ CastTracking(w)
    \/ CastCommit(w)
    \/ \E logged, answered \in BOOLEAN : CastAudit(w, logged, answered)

Next ==
    \/ \E w \in Workers :
          \/ \E u \in Users, t \in Topics, o \in Options : CastUser(w, u, t, o)
          \/ CastStep(w)
          \/ \E u \in Users, t \in Topics : MyVoteTracking(w, u, t)
          \/ MyVoteRow(w)
          \/ Abort(w)
    \/ \E t \in Topics, new \in Statuses : UpdateTopicStatus(t, new)
    \/ \E u \in Users : ToggleUser(u)
    \/ Tick

Spec == Init /\ [][Next]_vars

\* A worker that has started a handler goes on with it: nothing it waits for is
\* held by another handler.
Fairness == \A w \in Workers : WF_vars(CastStep(w) \/ MyVoteRow(w))

FairSpec == Spec /\ Fairness

-----------------------------------------------------------------------------
(* Properties *)

\* A resident has at most one vote and one tracking row per topic, in either mode
\* and whatever workers do at the same time (vote.py:49, locustfile.py:20).
NoDoubleVote ==
    \A u \in Users, t \in Topics :
        /\ \A i, j \in VotesOf(u, t) : i = j
        /\ \A i, j \in DOMAIN vote_tracking :
              /\ vote_tracking[i].topic = t /\ IsBy(vote_tracking[i], u, t)
              /\ vote_tracking[j].topic = t /\ IsBy(vote_tracking[j], u, t)
              => i = j

\* Votes and tracking rows come in pairs with the same topic and identity, so that
\* the participation a report counts on one table is the total of the option counts
\* it takes from the other (voting_service.py:109 "Atomically record vote + tracking
\* entry").
VotesMatchTracking ==
    /\ Len(votes) = Len(vote_tracking)
    /\ \A i \in DOMAIN votes :
          /\ votes[i].topic = vote_tracking[i].topic
          /\ votes[i].user_id = vote_tracking[i].user_id
          /\ votes[i].hashed_user_id = vote_tracking[i].hashed_user_id
          /\ TopicOf[votes[i].option] = votes[i].topic

\* Closing a topic is not instantaneous: a vote that had passed the check may land
\* after it.  But one worker lands at most one such vote
\* (voting_service.py:119-124 against 150-169).
OneLateVotePerWorker == \A w \in Workers, t \in Topics : late[w][t] <= 1

\* The audit trail never claims a vote that is not counted, and claims none twice
\* (voting_service.py:170-187).
NoPhantomAudit ==
    /\ \A k \in DOMAIN audit_logs :
          LET a == audit_logs[k] IN
          \E i \in VotesOf(a.user, a.topic) : votes[i].option = a.option
    /\ \A k, l \in DOMAIN audit_logs :
          audit_logs[k].user = audit_logs[l].user /\ audit_logs[k].topic = audit_logs[l].topic
          => k = l

\* /my-vote between and during other requests: a voter with a tracking row is never
\* told that the vote record is missing, and is told the option that is counted
\* (voting_service.py:215-237).
MyVoteHonest ==
    \A a \in told :
        /\ a[1] # "missing"
        /\ a[1] = "mine" => \E i \in VotesOf(a[2].user, a[2].topic) : votes[i].option = a[2].option

\* The topics a voter is shown are exactly those on which a vote is accepted, at the
\* ends of the window too (voting_service.py:41-47 against 51-63).
ListedIffAccepted == \A t \in Topics : t \in get_active_topics <=> Accepts(t)

\* The tables implement the ballot box.
Voter(row) == IF Mode[row.topic] = "identified" THEN row.user_id ELSE row.hashed_user_id[1]

ballots ==
    {[user |-> Voter(votes[i]), topic |-> votes[i].topic, option |-> votes[i].option] :
        i \in DOMAIN votes}

Box == INSTANCE BallotBox WITH told <- {a \in told : a[1] \in {"recorded", "already"}}

ImplementsBallotBox == Box!Spec

\* README.md:190, vote.py:18-20: an anonymous vote cannot be traced to its voter, so no
\* stored row has both the resident and the option of a vote on an anonymous topic.
AnonymousUnlinked ==
    /\ \A i \in DOMAIN votes : Mode[votes[i].topic] = "anonymous" => votes[i].user_id = NULL
    /\ \A k \in DOMAIN audit_logs : Mode[audit_logs[k].topic] # "anonymous"

\* Every cast that was begun is answered or cut off: two handlers never wait for each
\* other.
CastAnswered == \A w \in Workers : pc[w] \in Casting ~> pc[w] = "idle"
=============================================================================
