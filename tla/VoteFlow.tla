------------------------------- MODULE VoteFlow -------------------------------
(***************************************************************************)
(* Voting from end to end: the wizard of ui/page_modules/vote.py in the    *)
(* residents' browser sessions, the routes /vote/initiate, /vote/cast and  *)
(* /auth/resend-otp, the OTP desk and VotingService.                       *)
(*                                                                         *)
(* A session sends one request at a time and waits.  The request is with   *)
(* an idle worker from then on (until the worker's first step it may as    *)
(* well be on its way).  When the session gives up, because the client     *)
(* times out or the resident clicks elsewhere and Streamlit drops the      *)
(* script that waits, the worker does not notice.                          *)
(***************************************************************************)
EXTENDS VotingService, FiniteSets

CONSTANTS
    Sessions,
    MaxOtps         \* bound: OTPs issued to a resident

VARIABLES
    rows, loaded, accepts,  \* the OTP desk; a resident's phone is its key
    wizard,     \* per session: st.session_state, and whether an answer is awaited
    serving,    \* per worker: the request it serves, and how far the route is
    picked,     \* history: the ballots residents asked for in the wizard
    handed,     \* history: the choices found in a session by whoever logged in over it
    vouchers    \* history, per row of votes: the acceptance that let it through

desk == <<rows, loaded, accepts>>
flow == <<wizard, serving, picked, handed, vouchers>>

Desk == INSTANCE OtpDesk WITH Keys <- Users

Steps == {"list", "otp_pending", "voted"}

Wizard == [user : Users \cup {NULL}, step : Steps, topic : Topics \cup {NULL},
           option : Options \cup {NULL}, waiting : BOOLEAN]

\* session: who waits for the answer, NULL if nobody does any more.
FlowRequest == [session : Sessions \cup {NULL}, kind : {"initiate", "resend", "cast"},
                user : Users, topic : Topics, option : Options]

\* ticket: the position of the acceptance in accepts, or 0.
Serving == [ask : FlowRequest, stage : {"begin", "issue", "cast"}, ticket : Nat]

Ballot == [user : Users, topic : Topics, option : Options]

ASSUME FlowAssumption == NULL \notin Sessions /\ NULL \notin Serving

LoggedOut == [user |-> NULL, step |-> "list", topic |-> NULL, option |-> NULL, waiting |-> FALSE]

FlowTypeOK ==
    /\ Desk!TypeOK
    /\ wizard \in [Sessions -> Wizard]
    /\ serving \in [Workers -> Serving \cup {NULL}]
    /\ picked \subseteq Ballot
    /\ handed \subseteq [user : Users, topic : Topics, option : Options, step : Steps]
    /\ vouchers \in Seq(Nat)

FlowInit ==
    /\ Init
    /\ Desk!Init
    /\ wizard = [s \in Sessions |-> LoggedOut]
    /\ serving = [w \in Workers |-> NULL]
    /\ picked = {}
    /\ handed = {}
    /\ vouchers = <<>>

-----------------------------------------------------------------------------
(* The wizard.  Its steps leave the backend alone. *)

Acts(s) == wizard[s].user # NULL /\ ~wizard[s].waiting

Set(s, state) == wizard' = [wizard EXCEPT ![s] = state]

Idle(w) == serving[w] = NULL /\ pc[w] = "idle"

Send(s, w, kind, topic, option) ==
    /\ Idle(w)
    /\ serving' = [serving EXCEPT ![w] =
          [ask |-> [session |-> s, kind |-> kind, user |-> wizard[s].user,
                    topic |-> topic, option |-> option],
           stage |-> IF kind = "resend" THEN "issue" ELSE "begin", ticket |-> 0]]
    /\ Set(s, [wizard[s] EXCEPT !.waiting = TRUE])

BallotHeld(s) ==
    [user |-> wizard[s].user, topic |-> wizard[s].topic, option |-> wizard[s].option]

Found(ballot, step) ==
    [user |-> ballot.user, topic |-> ballot.topic, option |-> ballot.option, step |-> step]

\* _do_login: /auth/login answers only an approved, active account; token and user are
\* replaced, the wizard's keys are not.  The page can be had in a session that is still
\* open, by way of "Setup Admin" and "Back to Home".
Login(s, u) ==
    LET z == wizard[s] IN
    /\ ~z.waiting
    /\ authorised[u]
    /\ Set(s, [z EXCEPT !.user = u])
    /\ handed' = handed \cup (IF z.user \in {NULL, u} \/ z.step = "list" THEN {}
                            ELSE {Found([BallotHeld(s) EXCEPT !.user = u], z.step)})
    /\ UNCHANGED <<serving, picked>>

\* Variant: logging out forgets who was there, not what was being done.
LogoutKeepsStep(s) ==
    /\ Acts(s)
    /\ Set(s, [wizard[s] EXCEPT !.user = NULL])
    /\ UNCHANGED <<serving, picked>>

Logout(s) ==
    /\ Acts(s)
    /\ Set(s, LoggedOut)
    /\ UNCHANGED <<serving, picked>>

\* Variant: a click without a choice is sent.
PickNothing(s, w, t, o) ==
    LET u == wizard[s].user IN
    /\ Acts(s)
    /\ wizard[s].step = "list"
    /\ authorised[u]
    /\ t \in get_active_topics
    /\ ~has_voted(u, t)
    /\ TopicOf[o] = t
    /\ \E choice \in {o, NULL} :
          /\ picked' = picked \cup {[user |-> u, topic |-> t, option |-> choice]}
          /\ Send(s, w, "initiate", t, choice)

\* The list is fetched afresh by the script run that handles the click; the option is
\* one of the topic's.
Pick(s, w, t, o) ==
    LET u == wizard[s].user IN
    /\ Acts(s)
    /\ wizard[s].step = "list"
    /\ authorised[u]
    /\ t \in get_active_topics
    /\ ~has_voted(u, t)
    /\ TopicOf[o] = t
    /\ picked' = picked \cup {[user |-> u, topic |-> t, option |-> o]}
    /\ Send(s, w, "initiate", t, o)

Cancel(s) ==
    /\ Acts(s)
    /\ wizard[s].step = "otp_pending"
    /\ Set(s, [wizard[s] EXCEPT !.step = "list"])
    /\ UNCHANGED <<serving, picked>>

Confirm(s, w) ==
    /\ Acts(s)
    /\ wizard[s].step = "otp_pending"
    /\ Send(s, w, "cast", wizard[s].topic, wizard[s].option)
    /\ UNCHANGED picked

ResendOtp(s, w) ==
    /\ Acts(s)
    /\ wizard[s].step = "otp_pending"
    /\ Send(s, w, "resend", wizard[s].topic, wizard[s].option)
    /\ UNCHANGED picked

BackToTopics(s) ==
    /\ Acts(s)
    /\ wizard[s].step = "voted"
    /\ Set(s, [wizard[s] EXCEPT !.step = "list"])
    /\ UNCHANGED <<serving, picked>>

Orphan(r) == [r EXCEPT !.session = NULL]

\* Variant: the answer of a request that was given up still reaches the session.
GiveUpStillHears(s) ==
    /\ wizard[s].waiting
    /\ Set(s, [wizard[s] EXCEPT !.waiting = FALSE])
    /\ UNCHANGED <<serving, picked>>

\* The client's time-out of 15 s, or a click that restarts the script: nobody waits for
\* the answer any more.  The step stays what it was.
GiveUp(s) ==
    /\ wizard[s].waiting
    /\ Set(s, [wizard[s] EXCEPT !.waiting = FALSE])
    /\ serving' = [w \in Workers |->
                     IF serving[w] # NULL /\ serving[w].ask.session = s
                     THEN [serving[w] EXCEPT !.ask = Orphan(serving[w].ask)]
                     ELSE serving[w]]
    /\ UNCHANGED picked

WizardStep(s) ==
    /\ \/ \E u \in Users : Login(s, u)
       \/ /\ \/ Logout(s)
             \/ Cancel(s)
             \/ BackToTopics(s)
             \/ GiveUp(s)
             \/ \E w \in Workers :
                   \/ \E t \in Topics, o \in Options : Pick(s, w, t, o)
                   \/ Confirm(s, w)
                   \/ ResendOtp(s, w)
          /\ UNCHANGED handed
    /\ UNCHANGED vars /\ UNCHANGED desk /\ UNCHANGED vouchers

-----------------------------------------------------------------------------
(* The routes *)

Serves(w, kind, stage) ==
    serving[w] # NULL /\ serving[w].ask.kind = kind /\ serving[w].stage = stage

Asker(w) == serving[w].ask.user

Stage(w, stage, ticket) ==
    /\ serving' = [serving EXCEPT ![w] = [serving[w] EXCEPT !.stage = stage, !.ticket = ticket]]
    /\ UNCHANGED wizard

\* Success moves the wizard on, if it still waits; anything else shows a message.
Answer(w, success) ==
    LET ask == serving[w].ask  s == ask.session IN
    /\ serving' = [serving EXCEPT ![w] = NULL]
    /\ wizard' =
         IF s = NULL THEN wizard
         ELSE [wizard EXCEPT ![s] =
            CASE success /\ ask.kind = "initiate" ->
                   [wizard[s] EXCEPT !.waiting = FALSE, !.step = "otp_pending",
                                     !.topic = ask.topic, !.option = ask.option]
              [] success /\ ask.kind = "cast" ->
                   [wizard[s] EXCEPT !.waiting = FALSE, !.step = "voted"]
              [] OTHER -> [wizard[s] EXCEPT !.waiting = FALSE]]

\* The token is checked, then whether the resident has voted on the topic; neither its
\* status nor its window is looked at.
InitiateVote(w) ==
    LET r == serving[w].ask IN
    /\ Serves(w, "initiate", "begin")
    /\ IF authorised[r.user] /\ ~has_voted(r.user, r.topic)
       THEN Stage(w, "issue", 0)
       ELSE Answer(w, FALSE)
    /\ UNCHANGED <<vars, desk, picked, vouchers>>

\* create_otp: an OTP, or the rate limit's 429.
IssueOtp(w) ==
    /\ serving[w] # NULL /\ serving[w].stage = "issue"
    /\ \/ /\ Cardinality({i \in DOMAIN rows : rows[i].key = Asker(w)}) < MaxOtps
          /\ Desk!Issue(Asker(w))
          /\ Answer(w, TRUE)
       \/ Answer(w, FALSE) /\ UNCHANGED desk
    /\ UNCHANGED <<vars, picked, vouchers>>

\* verify_otp looks up a live OTP of the resident; none is a refusal.
CastVerify(w) ==
    /\ Serves(w, "cast", "begin") /\ loaded[w] = 0
    /\ \/ /\ authorised[Asker(w)]
          /\ Desk!Load(w, Asker(w))
          /\ UNCHANGED <<serving, wizard>>
       \/ Answer(w, FALSE) /\ UNCHANGED desk
    /\ UNCHANGED <<vars, picked, vouchers>>

\* Variant: the refusal of the OTP is not looked at.
CastVerdictIgnored(w) ==
    /\ Serves(w, "cast", "begin") /\ loaded[w] # 0
    /\ \/ Desk!Accept(w) /\ Stage(w, "cast", Len(accepts) + 1)
       \/ Desk!Exhaust(w) /\ Answer(w, FALSE)
       \/ Desk!Refuse(w) /\ Stage(w, "cast", Len(accepts))
    /\ UNCHANGED <<vars, picked, vouchers>>

\* The OTP is taken, refused, or dead after too many attempts.
CastVerdict(w) ==
    /\ Serves(w, "cast", "begin") /\ loaded[w] # 0
    /\ \/ Desk!Accept(w) /\ Stage(w, "cast", Len(accepts) + 1)
       \/ (Desk!Exhaust(w) \/ Desk!Refuse(w)) /\ Answer(w, FALSE)
    /\ UNCHANGED <<vars, picked, vouchers>>

\* cast_vote begins, on the account as it is now.
CastBegin(w) ==
    LET r == serving[w].ask IN
    /\ Serves(w, "cast", "cast") /\ pc[w] = "idle"
    /\ \/ CastUser(w, r.user, r.topic, r.option) /\ UNCHANGED <<serving, wizard>>
       \/ ~authorised[r.user] /\ Answer(w, FALSE) /\ UNCHANGED vars
    /\ UNCHANGED <<desk, picked, vouchers>>

\* The steps of cast_vote up to its COMMIT: each goes on, or ends in a refusal.
CastGoes(w) ==
    /\ Serves(w, "cast", "cast")
    /\ CastTopic(w) \/ CastTracking(w) \/ CastCommit(w)
    /\ vouchers' = IF votes' = votes THEN vouchers ELSE Append(vouchers, serving[w].ticket)
    /\ IF pc'[w] = "idle" THEN Answer(w, FALSE) ELSE UNCHANGED <<serving, wizard>>
    /\ UNCHANGED <<desk, picked>>

\* The audit row, and the answer "Your vote has been recorded".
CastEnds(w) ==
    /\ Serves(w, "cast", "cast")
    /\ \E logged \in BOOLEAN : CastAudit(w, logged, TRUE)
    /\ Answer(w, TRUE)
    /\ UNCHANGED <<desk, picked, vouchers>>

\* The handler or its worker dies: the session sees an error.
RouteAborts(w) ==
    /\ serving[w] # NULL
    /\ IF pc[w] = "idle" THEN UNCHANGED vars ELSE Abort(w)
    /\ IF loaded[w] = 0 THEN UNCHANGED desk ELSE Desk!Refuse(w)
    /\ Answer(w, FALSE)
    /\ UNCHANGED <<picked, vouchers>>

RouteStep(w) ==
    \/ InitiateVote(w)
    \/ IssueOtp(w)
    \/ CastVerify(w)
    \/ CastVerdict(w)
    \/ CastBegin(w)
    \/ CastGoes(w)
    \/ CastEnds(w)
    \/ RouteAborts(w)

Outside ==
    /\ \/ \E t \in Topics, new \in Statuses : UpdateTopicStatus(t, new)
       \/ \E u \in Users : ToggleUser(u)
       \/ Tick
    /\ UNCHANGED <<desk, flow>>

FlowNext ==
    \/ \E s \in Sessions : WizardStep(s)
    \/ \E w \in Workers : RouteStep(w) /\ UNCHANGED handed
    \/ Outside

FlowSpec == FlowInit /\ [][FlowNext]_<<vars, desk, flow>>

-----------------------------------------------------------------------------
(* Properties *)

\* The choices of S, and those found in a session at that step by whoever logged in over it
\* that are another resident's choice of S.
HandedOn(step, S) ==
    S \cup {b \in Ballot : /\ Found(b, step) \in handed
                           /\ \E u \in Users : [b EXCEPT !.user = u] \in S}

\* A choice passes from one resident to another in one way only: the second logs in over
\* the first one's open session at the confirmation and confirms what is found there.
\* Every other counted vote was picked by its resident; no log-out, late answer or request
\* given up turns it into another (vote.py:99-117, 199-203, components.py:33-37,
\* login.py:67-75).
VoteAsChosen == ballots \subseteq HandedOn("otp_pending", picked)

\* A session that shows "Vote Recorded!" has that choice counted: for the resident logged
\* in, or for another one, over whose session the resident logged in when it was showing
\* that already (vote.py:205-211, voting_service.py:189-194, login.py:67-75).
ConfirmedIsCounted ==
    \A s \in Sessions :
        wizard[s].step = "voted" => BallotHeld(s) \in HandedOn("voted", ballots)

\* vote.py:7-8 "User selects an option -> OTP is sent", "User enters OTP -> vote is
\* recorded": whose vote is recorded selected that option.
VoterSelected == ballots \subseteq picked

\* Behind each vote stands an acceptance of an OTP of its voter, and no acceptance stands
\* behind two votes (routes/voting.py:133-147).
Vouching ==
    /\ Len(vouchers) = Len(votes)
    /\ \A i \in DOMAIN vouchers :
          /\ vouchers[i] \in DOMAIN accepts
          /\ rows[accepts[vouchers[i]].log].key = Voter(votes[i])
    /\ \A i, j \in DOMAIN vouchers : vouchers[i] = vouchers[j] => i = j

\* Two workers may both accept one OTP, which names no topic; but no worker lets two votes
\* through on one (otp_service.py:171-225).
OtpServesOncePerWorker ==
    \A i, j \in DOMAIN vouchers :
        i # j /\ accepts[vouchers[i]].log = accepts[vouchers[j]].log
            => accepts[vouchers[i]].worker # accepts[vouchers[j]].worker

\* Nobody votes without a code of their own, and a code opens at most one vote through each
\* worker, whichever session asks and whichever answer is lost.
VotesVouched == Vouching /\ OtpServesOncePerWorker
=============================================================================
