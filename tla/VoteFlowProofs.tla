---------------------------- MODULE VoteFlowProofs ----------------------------
(* Theorems about VoteFlow, for every set of residents, sessions, workers,      *)
(* topics and options.                                                          *)
EXTENDS VoteFlow, VotingServiceProofs, FunctionTheorems, FiniteSetTheorems

fvars == <<vars, desk, flow>>

DeskProofs == INSTANCE OtpDeskProofs WITH Keys <- Users

-----------------------------------------------------------------------------
(* Records *)

LEMMA Orphaned ==
  ASSUME NEW r \in Serving
  PROVE  LET n == [r EXCEPT !.ask = Orphan(r.ask)] IN
         /\ n \in Serving
         /\ n.ask.session = NULL
         /\ n.ask.kind = r.ask.kind
         /\ n.ask.user = r.ask.user
         /\ n.ask.topic = r.ask.topic
         /\ n.ask.option = r.ask.option
         /\ n.stage = r.stage
         /\ n.ticket = r.ticket
<1>1. /\ Orphan(r.ask) \in FlowRequest
      /\ Orphan(r.ask).session = NULL
      /\ Orphan(r.ask).kind = r.ask.kind
      /\ Orphan(r.ask).user = r.ask.user
      /\ Orphan(r.ask).topic = r.ask.topic
      /\ Orphan(r.ask).option = r.ask.option
  BY DEF Orphan, Serving, FlowRequest
<1> DEFINE q == Orphan(r.ask)
<1>2. q \in FlowRequest
  BY <1>1
<1> HIDE DEF q
<1>3. LET n == [r EXCEPT !.ask = q] IN
      n \in Serving /\ n.ask = q /\ n.stage = r.stage /\ n.ticket = r.ticket
  BY <1>2 DEF Serving
<1>4. QED
  BY <1>1, <1>3 DEF q

Fields(z, user, step, topic, option, waiting) ==
    /\ z \in Wizard
    /\ z.user = user /\ z.step = step /\ z.topic = topic /\ z.option = option
    /\ z.waiting = waiting

LEMMA Turned ==
  ASSUME NEW z \in Wizard, NEW step \in Steps, NEW b \in BOOLEAN,
         NEW topic \in Topics \cup {NULL}, NEW option \in Options \cup {NULL},
         NEW user \in Users \cup {NULL}
  PROVE  /\ Fields([z EXCEPT !.waiting = b], z.user, z.step, z.topic, z.option, b)
         /\ Fields([z EXCEPT !.step = step], z.user, step, z.topic, z.option, z.waiting)
         /\ Fields([z EXCEPT !.user = user], user, z.step, z.topic, z.option, z.waiting)
         /\ Fields([z EXCEPT !.waiting = b, !.step = step], z.user, step, z.topic, z.option, b)
         /\ Fields([z EXCEPT !.waiting = b, !.step = step, !.topic = topic, !.option = option],
                   z.user, step, topic, option, b)
BY DEF Wizard, Fields

-----------------------------------------------------------------------------
(* What the building blocks of the actions do *)

ServingTyped == serving \in [Workers -> Serving \cup {NULL}]
WizardTyped == wizard \in [Sessions -> Wizard]

OthersServe(w) == \A v \in Workers : v # w => serving'[v] = serving[v]
OthersWait(s) == \A z \in Sessions : z # s => wizard'[z] = wizard[z]

LEMMA StageEffect ==
  ASSUME ServingTyped, NEW w \in Workers, serving[w] # NULL,
         NEW stage \in {"begin", "issue", "cast"}, NEW ticket \in Nat, Stage(w, stage, ticket)
  PROVE  /\ wizard' = wizard /\ ServingTyped' /\ OthersServe(w)
         /\ serving'[w] \in Serving /\ serving'[w].ask = serving[w].ask
         /\ serving'[w].stage = stage /\ serving'[w].ticket = ticket
<1> DEFINE n == [serving[w] EXCEPT !.stage = stage, !.ticket = ticket]
<1>1. serving[w] \in Serving
  BY DEF ServingTyped
<1>2. n \in Serving /\ n.ask = serving[w].ask /\ n.stage = stage /\ n.ticket = ticket
  BY <1>1 DEF Serving
<1>3. serving' = [serving EXCEPT ![w] = n] /\ wizard' = wizard
  BY DEF Stage
<1> HIDE DEF n
<1>4. serving'[w] = n /\ ServingTyped' /\ OthersServe(w)
  BY <1>2, <1>3 DEF ServingTyped, OthersServe
<1>5. QED
  BY <1>2, <1>3, <1>4

Asks(ask, s, kind, user, topic, option) ==
    /\ ask.session = s /\ ask.kind = kind /\ ask.user = user
    /\ ask.topic = topic /\ ask.option = option

LEMMA SendEffect ==
  ASSUME ServingTyped, WizardTyped, NEW s \in Sessions, NEW w \in Workers,
         NEW kind \in {"initiate", "resend", "cast"}, NEW topic \in Topics, NEW option \in Options,
         wizard[s].user \in Users, Send(s, w, kind, topic, option)
  PROVE  /\ serving[w] = NULL /\ pc[w] = "idle"
         /\ ServingTyped' /\ WizardTyped' /\ OthersServe(w) /\ OthersWait(s)
         /\ serving'[w] \in Serving
         /\ Asks(serving'[w].ask, s, kind, wizard[s].user, topic, option)
         /\ serving'[w].stage = "issue" => kind = "resend"
         /\ Fields(wizard'[s], wizard[s].user, wizard[s].step, wizard[s].topic, wizard[s].option, TRUE)
<1> DEFINE z == [wizard[s] EXCEPT !.waiting = TRUE]
           a == [session |-> s, kind |-> kind, user |-> wizard[s].user, topic |-> topic,
                 option |-> option]
           n == [ask |-> a, stage |-> IF kind = "resend" THEN "issue" ELSE "begin", ticket |-> 0]
<1>1. Fields(z, wizard[s].user, wizard[s].step, wizard[s].topic, wizard[s].option, TRUE)
  <2>1. wizard[s] \in Wizard
    BY DEF WizardTyped
  <2>2. QED
    BY <2>1, Turned DEF Wizard
<1>2. n \in Serving /\ Asks(n.ask, s, kind, wizard[s].user, topic, option) /\ (n.stage = "issue" => kind = "resend")
  BY DEF Serving, FlowRequest, Asks
<1>3. /\ serving[w] = NULL /\ pc[w] = "idle"
      /\ serving' = [serving EXCEPT ![w] = n] /\ wizard' = [wizard EXCEPT ![s] = z]
  BY DEF Send, Idle, Set
<1> HIDE DEF z, n
<1>4. QED
  BY <1>1, <1>2, <1>3 DEF ServingTyped, WizardTyped, OthersServe, OthersWait, Fields

LEMMA AnswerEffect ==
  ASSUME ServingTyped, WizardTyped, NEW w \in Workers, serving[w] # NULL,
         NEW success \in BOOLEAN, Answer(w, success)
  PROVE  LET ask == serving[w].ask IN
         /\ ServingTyped' /\ WizardTyped' /\ OthersServe(w) /\ OthersWait(ask.session)
         /\ serving'[w] = NULL
         /\ ask.session # NULL =>
               LET z == wizard[ask.session]  n == wizard'[ask.session] IN
               \/ /\ success /\ ask.kind = "initiate"
                  /\ Fields(n, z.user, "otp_pending", ask.topic, ask.option, FALSE)
               \/ /\ success /\ ask.kind = "cast"
                  /\ Fields(n, z.user, "voted", z.topic, z.option, FALSE)
               \/ Fields(n, z.user, z.step, z.topic, z.option, FALSE)
<1> USE FlowAssumption
<1> DEFINE ask == serving[w].ask  s == ask.session  z == wizard[s]
           moved == [z EXCEPT !.waiting = FALSE, !.step = "otp_pending",
                              !.topic = ask.topic, !.option = ask.option]
           voted == [z EXCEPT !.waiting = FALSE, !.step = "voted"]
           told_off == [z EXCEPT !.waiting = FALSE]
<1>1. /\ ask.session \in Sessions \cup {NULL} /\ ask.topic \in Topics /\ ask.option \in Options
      /\ ask.kind \in {"initiate", "resend", "cast"}
  BY DEF ServingTyped, Serving, FlowRequest
<1>2. serving' = [serving EXCEPT ![w] = NULL]
  BY DEF Answer
<1>3. CASE s = NULL
  <2>1. wizard' = wizard
    BY <1>3 DEF Answer
  <2>2. QED
    BY <1>2, <1>3, <2>1 DEF ServingTyped, WizardTyped, OthersServe, OthersWait
<1>4. CASE s # NULL
  <2>1. s \in Sessions /\ z \in Wizard
    BY <1>1, <1>4 DEF WizardTyped
  <2>2. /\ Fields(moved, z.user, "otp_pending", ask.topic, ask.option, FALSE)
        /\ Fields(voted, z.user, "voted", z.topic, z.option, FALSE)
        /\ Fields(told_off, z.user, z.step, z.topic, z.option, FALSE)
    <3>1. /\ "otp_pending" \in Steps /\ "voted" \in Steps
          /\ ask.topic \in Topics \cup {NULL} /\ ask.option \in Options \cup {NULL}
      BY <1>1 DEF Steps
    <3> HIDE DEF z, ask
    <3>2. QED
      BY <2>1, <3>1, Turned
  <2>3. \/ success /\ ask.kind = "initiate" /\ wizard' = [wizard EXCEPT ![s] = moved]
        \/ success /\ ask.kind = "cast" /\ wizard' = [wizard EXCEPT ![s] = voted]
        \/ wizard' = [wizard EXCEPT ![s] = told_off]
    <3>1. CASE success /\ ask.kind = "initiate"
      BY <1>4, <3>1 DEF Answer
    <3>2. CASE success /\ ask.kind = "cast"
      BY <1>4, <3>2 DEF Answer
    <3>3. CASE ~success \/ ask.kind = "resend"
      BY <1>4, <3>3 DEF Answer
    <3>4. QED
      BY <1>1, <3>1, <3>2, <3>3
  <2> HIDE DEF moved, voted, told_off
  <2>4. QED
    BY <1>2, <1>4, <2>1, <2>2, <2>3
    DEF ServingTyped, WizardTyped, OthersServe, OthersWait, Fields
<1>5. QED
  BY <1>3, <1>4

LEMMA GiveUpEffect ==
  ASSUME ServingTyped, WizardTyped, NEW s \in Sessions, GiveUp(s)
  PROVE  /\ ServingTyped' /\ WizardTyped' /\ OthersWait(s)
         /\ Fields(wizard'[s], wizard[s].user, wizard[s].step, wizard[s].topic, wizard[s].option, FALSE)
         /\ \A w \in Workers :
               /\ serving[w] = NULL => serving'[w] = NULL
               /\ serving[w] # NULL =>
                     LET r == serving[w]  n == serving'[w] IN
                     /\ n \in Serving
                     /\ n.ask.session = IF r.ask.session = s THEN NULL ELSE r.ask.session
                     /\ n.ask.kind = r.ask.kind /\ n.ask.user = r.ask.user
                     /\ n.ask.topic = r.ask.topic /\ n.ask.option = r.ask.option
                     /\ n.stage = r.stage /\ n.ticket = r.ticket
<1> DEFINE z == [wizard[s] EXCEPT !.waiting = FALSE]
           n(w) == [serving[w] EXCEPT !.ask = Orphan(serving[w].ask)]
<1>1. Fields(z, wizard[s].user, wizard[s].step, wizard[s].topic, wizard[s].option, FALSE)
  <2>1. wizard[s] \in Wizard
    BY DEF WizardTyped
  <2>2. QED
    BY <2>1, Turned DEF Wizard
<1>2. wizard' = [wizard EXCEPT ![s] = z]
  BY DEF GiveUp, Set
<1>3. serving' = [w \in Workers |-> IF serving[w] # NULL /\ serving[w].ask.session = s
                                    THEN n(w) ELSE serving[w]]
  BY DEF GiveUp
<1>4. ASSUME NEW w \in Workers, serving[w] # NULL
      PROVE  /\ n(w) \in Serving
             /\ n(w).ask.session = NULL
             /\ n(w).ask.kind = serving[w].ask.kind /\ n(w).ask.user = serving[w].ask.user
             /\ n(w).ask.topic = serving[w].ask.topic /\ n(w).ask.option = serving[w].ask.option
             /\ n(w).stage = serving[w].stage /\ n(w).ticket = serving[w].ticket
  <2>1. serving[w] \in Serving
    BY <1>4 DEF ServingTyped
  <2>2. QED
    BY <2>1, Orphaned
<1> HIDE DEF z, n
<1>5. WizardTyped' /\ OthersWait(s) /\ wizard'[s] = z
  BY <1>1, <1>2 DEF WizardTyped, OthersWait, Fields
<1>6. \A w \in Workers :
         serving'[w] = IF serving[w] # NULL /\ serving[w].ask.session = s THEN n(w) ELSE serving[w]
  BY <1>3
<1>7. ServingTyped'
  BY <1>3, <1>4 DEF ServingTyped
<1>8. QED
  BY <1>1, <1>4, <1>5, <1>6, <1>7 DEF ServingTyped

-----------------------------------------------------------------------------
(* The desk and the service underneath *)

\* A step of the flow is a step of the desk, or leaves it alone.
LEMMA DeskSteps ==
  ASSUME ServingTyped, [FlowNext]_fvars
  PROVE  Desk!Next \/ UNCHANGED desk
<1> USE DEF desk
<1>1. ASSUME NEW w \in Workers, serving[w] # NULL PROVE \E u \in Users : u = Asker(w)
  BY <1>1 DEF ServingTyped, Serving, FlowRequest, Asker
<1>2. ASSUME NEW w \in Workers, IssueOtp(w) PROVE Desk!Next \/ UNCHANGED desk
  <2>1. PICK u \in Users : u = Asker(w)
    BY <1>1, <1>2 DEF IssueOtp
  <2>2. Desk!Issue(u) \/ UNCHANGED desk
    BY <1>2, <2>1 DEF IssueOtp
  <2>3. QED
    BY <2>2 DEF Desk!Next
<1>3. ASSUME NEW w \in Workers, CastVerify(w) PROVE Desk!Next \/ UNCHANGED desk
  <2>1. PICK u \in Users : u = Asker(w)
    BY <1>1, <1>3 DEF CastVerify, Serves
  <2>2. Desk!Load(w, u) \/ UNCHANGED desk
    BY <1>3, <2>1 DEF CastVerify
  <2>3. QED
    BY <2>2 DEF Desk!Next
<1>4. ASSUME NEW w \in Workers, CastVerdict(w) \/ RouteAborts(w) PROVE Desk!Next \/ UNCHANGED desk
  BY <1>4 DEF CastVerdict, RouteAborts, Desk!Next
<1>5. ASSUME NEW w \in Workers, InitiateVote(w) \/ CastBegin(w) \/ CastGoes(w) \/ CastEnds(w)
      PROVE UNCHANGED desk
  BY <1>5 DEF InitiateVote, CastBegin, CastGoes, CastEnds
<1>6. CASE (\E s \in Sessions : WizardStep(s)) \/ Outside \/ UNCHANGED fvars
  BY <1>6 DEF WizardStep, Outside, fvars
<1>7. QED
  BY <1>2, <1>3, <1>4, <1>5, <1>6 DEF FlowNext, RouteStep

\* The desk keeps its types, the keys of its rows and the acceptances it has recorded.
LEMMA DeskKeeps ==
  ASSUME Desk!TypeOK, Desk!Next \/ UNCHANGED desk
  PROVE  /\ Desk!TypeOK'
         /\ \A i \in DOMAIN rows : i \in DOMAIN rows' /\ rows'[i].key = rows[i].key
         /\ \A k \in DOMAIN accepts : k \in DOMAIN accepts' /\ accepts'[k] = accepts[k]
<1>1. (Desk!TypeOK <=> DeskProofs!TypeOK) /\ (Desk!TypeOK' <=> DeskProofs!TypeOK')
  BY DEF Desk!TypeOK, DeskProofs!TypeOK, Desk!Row, DeskProofs!Row
<1>2. Desk!Next <=> DeskProofs!Next
  BY DEF Desk!Next, Desk!Issue, Desk!Revoke, Desk!Load, Desk!Accept, Desk!Exhaust, Desk!Refuse,
         Desk!Revoked, Desk!Spent, Desk!Dead,
         DeskProofs!Next, DeskProofs!Issue, DeskProofs!Revoke, DeskProofs!Load, DeskProofs!Accept,
         DeskProofs!Exhaust, DeskProofs!Refuse, DeskProofs!Revoked, DeskProofs!Spent, DeskProofs!Dead
<1>3. DeskProofs!Next \/ UNCHANGED DeskProofs!dvars
  BY <1>2 DEF desk, DeskProofs!dvars
<1>4. QED
  BY <1>1, <1>3, DeskProofs!Keeps

\* A step of the flow is a step of VotingService, or leaves it alone.
LEMMA BackendSteps ==
  ASSUME ServingTyped, [FlowNext]_fvars
  PROVE  [Next]_vars
<1>1. ASSUME NEW w \in Workers, CastBegin(w) PROVE [Next]_vars
  <2>1. PICK u \in Users, t \in Topics, o \in Options :
           u = serving[w].ask.user /\ t = serving[w].ask.topic /\ o = serving[w].ask.option
    BY <1>1 DEF CastBegin, Serves, ServingTyped, Serving, FlowRequest
  <2>2. CastUser(w, u, t, o) \/ UNCHANGED vars
    BY <1>1, <2>1 DEF CastBegin
  <2>3. QED
    BY <2>2 DEF Next
<1>2. ASSUME NEW w \in Workers, CastGoes(w) PROVE Next
  BY <1>2 DEF CastGoes, Next, CastStep
<1>3. ASSUME NEW w \in Workers, CastEnds(w) PROVE Next
  BY <1>3 DEF CastEnds, Next, CastStep
<1>4. ASSUME NEW w \in Workers, RouteAborts(w) PROVE [Next]_vars
  BY <1>4 DEF RouteAborts, Next
<1>5. ASSUME NEW w \in Workers, InitiateVote(w) \/ IssueOtp(w) \/ CastVerify(w) \/ CastVerdict(w)
      PROVE UNCHANGED vars
  BY <1>5 DEF InitiateVote, IssueOtp, CastVerify, CastVerdict
<1>6. CASE Outside
  BY <1>6 DEF Outside, Next
<1>7. CASE (\E s \in Sessions : WizardStep(s)) \/ UNCHANGED fvars
  BY <1>7 DEF WizardStep, fvars
<1>8. QED
  BY <1>1, <1>2, <1>3, <1>4, <1>5, <1>6, <1>7 DEF FlowNext, RouteStep

-----------------------------------------------------------------------------
(* What sessions and workers agree on *)

BallotAsked(w) ==
    [user |-> serving[w].ask.user, topic |-> serving[w].ask.topic, option |-> serving[w].ask.option]

\* The choices that may become votes.
Chosen == HandedOn("otp_pending", picked)

\* w serves a request somebody in s waits for.
Attached(w, s) == serving[w] # NULL /\ serving[w].ask.session = s

AskedPicked(w) ==
    serving[w] # NULL =>
        /\ BallotAsked(w) \in Chosen
        /\ serving[w].stage = "issue" => serving[w].ask.kind # "cast"

HeldPicked(s) ==
    /\ wizard[s].step # "list" => wizard[s].topic \in Topics /\ wizard[s].option \in Options
    /\ wizard[s].step = "otp_pending" => BallotHeld(s) \in Chosen

LoggedOutIdle(s) == wizard[s].user = NULL => wizard[s].step = "list"

Agrees(w, s) ==
    Attached(w, s) =>
        /\ wizard[s].waiting
        /\ wizard[s].user = serving[w].ask.user
        /\ serving[w].ask.kind # "initiate" =>
              /\ wizard[s].step = "otp_pending"
              /\ wizard[s].topic = serving[w].ask.topic
              /\ wizard[s].option = serving[w].ask.option

\* A handler of cast_vote runs for the request its worker serves.
HandlerServes(w) ==
    pc[w] # "idle" =>
        /\ serving[w] # NULL /\ serving[w].ask.kind = "cast" /\ serving[w].stage = "cast"
        /\ pc[w] \in Casting
        /\ BallotOf(w) = BallotAsked(w)

WizardInv ==
    /\ \A w \in Workers : AskedPicked(w) /\ HandlerServes(w)
    /\ \A s \in Sessions : HeldPicked(s) /\ LoggedOutIdle(s)
    /\ \A w \in Workers, s \in Sessions : Agrees(w, s)
    /\ \A v, w \in Workers, s \in Sessions : Attached(v, s) /\ Attached(w, s) => v = w

PickedTyped ==
    /\ picked \subseteq Ballot
    /\ handed \subseteq [user : Users, topic : Topics, option : Options, step : Steps]

Good == ServingTyped /\ WizardTyped /\ PickedTyped /\ WizardInv

LEMMA ChosenGrows ==
  ASSUME picked \subseteq picked', handed \subseteq handed'
  PROVE  Chosen \subseteq Chosen'
BY DEF Chosen, HandedOn

\* No request of a session that does not wait is served.
LEMMA NobodyServes ==
  ASSUME Good, NEW s \in Sessions, ~wizard[s].waiting, NEW w \in Workers
  PROVE  ~Attached(w, s)
BY DEF Good, WizardInv, Agrees

\* A session whose answer nobody prepares goes to the list.
LEMMA BackToList ==
  ASSUME Good, NEW s \in Sessions, ~wizard[s].waiting,
         UNCHANGED <<serving, picked, handed, pc, req>>,
         NEW z \in Wizard, z.step = "list", wizard' = [wizard EXCEPT ![s] = z]
  PROVE  Good'
<1>1. WizardTyped' /\ OthersWait(s) /\ wizard'[s] = z
  BY DEF Good, WizardTyped, OthersWait
<1>2. \A w \in Workers : ~Attached(w, s)
  BY NobodyServes
<1>3. \A w \in Workers : AskedPicked(w)' /\ HandlerServes(w)'
  BY ChosenGrows DEF Good, WizardInv, AskedPicked, HandlerServes, BallotAsked, BallotOf
<1>4. \A x \in Sessions : HeldPicked(x)' /\ LoggedOutIdle(x)'
  BY <1>1, ChosenGrows DEF Good, WizardInv, HeldPicked, LoggedOutIdle, BallotHeld, OthersWait
<1>5. \A w \in Workers, x \in Sessions : Attached(w, x)' <=> Attached(w, x)
  BY DEF Attached
<1>6. \A w \in Workers, x \in Sessions : Agrees(w, x)'
  BY <1>1, <1>2, <1>5 DEF Good, WizardInv, Agrees, OthersWait
<1>7. QED
  BY <1>1, <1>3, <1>4, <1>5, <1>6 DEF Good, WizardInv, ServingTyped, PickedTyped

Choice(s, topic, option) == [user |-> wizard[s].user, topic |-> topic, option |-> option]

\* A click sends a ballot that was chosen.
LEMMA SendKeeps ==
  ASSUME Good, NEW s \in Sessions, NEW w \in Workers, Acts(s),
         NEW kind \in {"initiate", "resend", "cast"}, NEW topic \in Topics, NEW option \in Options,
         Send(s, w, kind, topic, option),
         Chosen \subseteq Chosen', PickedTyped', UNCHANGED <<pc, req>>,
         Choice(s, topic, option) \in Chosen',
         kind # "initiate" => /\ wizard[s].step = "otp_pending"
                              /\ wizard[s].topic = topic /\ wizard[s].option = option
  PROVE  Good'
<1> USE FlowAssumption
<1>1. ServingTyped /\ WizardTyped /\ wizard[s].user \in Users
  BY DEF Good, Acts, WizardTyped, Wizard
<1>2. /\ serving[w] = NULL /\ pc[w] = "idle"
      /\ ServingTyped' /\ WizardTyped' /\ OthersServe(w) /\ OthersWait(s)
      /\ serving'[w] \in Serving
      /\ Asks(serving'[w].ask, s, kind, wizard[s].user, topic, option)
      /\ serving'[w].stage = "issue" => kind = "resend"
      /\ Fields(wizard'[s], wizard[s].user, wizard[s].step, wizard[s].topic, wizard[s].option, TRUE)
  BY <1>1, SendEffect
<1>3. /\ serving'[w].ask.session = s /\ serving'[w].ask.kind = kind
      /\ serving'[w].ask.user = wizard[s].user
      /\ serving'[w].ask.topic = topic /\ serving'[w].ask.option = option
  BY <1>2 DEF Asks
<1>4. \A v \in Workers : ~Attached(v, s)
  BY DEF Good, WizardInv, Agrees, Acts
<1>5. \A v \in Workers, x \in Sessions : Attached(v, x)' <=> Attached(v, x) \/ (v = w /\ x = s)
  BY <1>2, <1>3 DEF Attached, OthersServe
<1>6. \A v \in Workers : AskedPicked(v)' /\ HandlerServes(v)'
  <2>1. ASSUME NEW v \in Workers, v # w PROVE AskedPicked(v)' /\ HandlerServes(v)'
    BY <1>2, <2>1 DEF Good, WizardInv, AskedPicked, HandlerServes, BallotAsked, BallotOf, OthersServe
  <2>2. AskedPicked(w)' /\ HandlerServes(w)'
    BY <1>2, <1>3 DEF AskedPicked, HandlerServes, BallotAsked, Choice
  <2>3. QED
    BY <2>1, <2>2
<1>7. \A x \in Sessions : HeldPicked(x)' /\ LoggedOutIdle(x)'
  BY <1>2 DEF Good, WizardInv, HeldPicked, LoggedOutIdle, BallotHeld, OthersWait, Fields
<1>8. ASSUME NEW v \in Workers, NEW x \in Sessions PROVE Agrees(v, x)'
  <2>1. CASE v = w /\ x = s
    BY <1>2, <1>3, <2>1 DEF Agrees, Fields
  <2>2. CASE ~(v = w /\ x = s) /\ Attached(v, x)
    BY <1>2, <1>4, <2>2 DEF Good, WizardInv, Agrees, Attached, OthersServe, OthersWait
  <2>3. CASE ~(v = w /\ x = s) /\ ~Attached(v, x)
    BY <1>5, <2>3 DEF Agrees
  <2>4. QED
    BY <2>1, <2>2, <2>3
<1>9. \A v, u \in Workers, x \in Sessions : Attached(v, x)' /\ Attached(u, x)' => v = u
  BY <1>4, <1>5 DEF Good, WizardInv
<1>10. QED
  BY <1>2, <1>6, <1>7, <1>8, <1>9 DEF Good, WizardInv

\* Nobody waits any more: the request goes on without a session.
LEMMA GiveUpKeeps ==
  ASSUME Good, NEW s \in Sessions, GiveUp(s), UNCHANGED <<handed, pc, req>>
  PROVE  Good'
<1> USE FlowAssumption
<1>1. picked' = picked /\ Chosen \subseteq Chosen' /\ ServingTyped /\ WizardTyped
  BY ChosenGrows DEF GiveUp, Good
<1>2. /\ ServingTyped' /\ WizardTyped' /\ OthersWait(s)
      /\ Fields(wizard'[s], wizard[s].user, wizard[s].step, wizard[s].topic, wizard[s].option, FALSE)
      /\ \A w \in Workers :
            /\ serving[w] = NULL => serving'[w] = NULL
            /\ serving[w] # NULL =>
                  LET r == serving[w]  n == serving'[w] IN
                  /\ n \in Serving
                  /\ n.ask.session = IF r.ask.session = s THEN NULL ELSE r.ask.session
                  /\ n.ask.kind = r.ask.kind /\ n.ask.user = r.ask.user
                  /\ n.ask.topic = r.ask.topic /\ n.ask.option = r.ask.option
                  /\ n.stage = r.stage /\ n.ticket = r.ticket
  BY <1>1, GiveUpEffect
<1>3. \A w \in Workers, x \in Sessions : Attached(w, x)' <=> Attached(w, x) /\ x # s
  BY <1>2 DEF Attached
<1>4. \A w \in Workers : AskedPicked(w)' /\ HandlerServes(w)'
  BY <1>1, <1>2 DEF Good, WizardInv, AskedPicked, HandlerServes, BallotAsked, BallotOf
<1>5. \A x \in Sessions : HeldPicked(x)' /\ LoggedOutIdle(x)'
  BY <1>1, <1>2 DEF Good, WizardInv, HeldPicked, LoggedOutIdle, BallotHeld, OthersWait, Fields
<1>6. ASSUME NEW w \in Workers, NEW x \in Sessions PROVE Agrees(w, x)'
  <2>1. CASE Attached(w, x) /\ x # s
    BY <1>2, <2>1 DEF Good, WizardInv, Agrees, Attached, OthersWait
  <2>2. CASE ~(Attached(w, x) /\ x # s)
    BY <1>3, <2>2 DEF Agrees
  <2>3. QED
    BY <2>1, <2>2
<1>7. PickedTyped'
  BY <1>1 DEF Good, PickedTyped
<1>8. QED
  BY <1>2, <1>3, <1>4, <1>5, <1>6, <1>7 DEF Good, WizardInv

\* The route goes on with the same request.
LEMMA StageKeeps ==
  ASSUME Good, NEW w \in Workers, serving[w] # NULL, pc[w] = "idle",
         NEW stage \in {"begin", "issue", "cast"}, NEW ticket \in Nat, Stage(w, stage, ticket),
         stage = "issue" => serving[w].ask.kind # "cast", UNCHANGED <<picked, handed, pc, req>>
  PROVE  Good'
<1> USE FlowAssumption, ChosenGrows
<1>1. /\ wizard' = wizard /\ ServingTyped' /\ OthersServe(w)
      /\ serving'[w] \in Serving /\ serving'[w].ask = serving[w].ask
      /\ serving'[w].stage = stage
  BY StageEffect DEF Good
<1>2. \A v \in Workers : /\ (serving'[v] # NULL) <=> (serving[v] # NULL)
                         /\ serving'[v].ask = serving[v].ask
  BY <1>1 DEF OthersServe
<1>3. \A v \in Workers, x \in Sessions : Attached(v, x)' <=> Attached(v, x)
  BY <1>2 DEF Attached
<1>4. \A v \in Workers : AskedPicked(v)'
  BY <1>1, <1>2 DEF Good, WizardInv, AskedPicked, BallotAsked, OthersServe
<1>5. \A v \in Workers : HandlerServes(v)'
  BY <1>1, <1>2 DEF Good, WizardInv, HandlerServes, BallotAsked, BallotOf, OthersServe
<1>6. \A x \in Sessions : HeldPicked(x)' /\ LoggedOutIdle(x)'
  BY <1>1 DEF Good, WizardInv, HeldPicked, LoggedOutIdle, BallotHeld
<1>7. \A v \in Workers, x \in Sessions : Agrees(v, x)'
  BY <1>1, <1>2, <1>3 DEF Good, WizardInv, Agrees
<1>8. QED
  BY <1>1, <1>3, <1>4, <1>5, <1>6, <1>7 DEF Good, WizardInv, WizardTyped, PickedTyped

OthersRun(w) == \A v \in Workers : v # w => pc'[v] = pc[v] /\ req'[v] = req[v]

\* The answer moves the wizard on to what it asked for.
LEMMA AnswerKeeps ==
  ASSUME Good, NEW w \in Workers, serving[w] # NULL, NEW success \in BOOLEAN, Answer(w, success),
         UNCHANGED <<picked, handed>>, pc'[w] = "idle", OthersRun(w)
  PROVE  Good'
<1> USE FlowAssumption, ChosenGrows
<1> DEFINE ask == serving[w].ask  s == ask.session
<1>1. /\ ServingTyped' /\ WizardTyped' /\ OthersServe(w) /\ OthersWait(s)
      /\ serving'[w] = NULL
      /\ s # NULL =>
            LET z == wizard[s]  n == wizard'[s] IN
            \/ /\ success /\ ask.kind = "initiate"
               /\ Fields(n, z.user, "otp_pending", ask.topic, ask.option, FALSE)
            \/ /\ success /\ ask.kind = "cast"
               /\ Fields(n, z.user, "voted", z.topic, z.option, FALSE)
            \/ Fields(n, z.user, z.step, z.topic, z.option, FALSE)
  BY AnswerEffect DEF Good
<1>2. AskedPicked(w) /\ \A x \in Sessions : Agrees(w, x)
  BY DEF Good, WizardInv
<1>3. \A v \in Workers, x \in Sessions : Attached(v, x)' <=> Attached(v, x) /\ v # w
  BY <1>1 DEF Attached, OthersServe
<1>4. \A v \in Workers : AskedPicked(v)' /\ HandlerServes(v)'
  <2>1. ASSUME NEW v \in Workers, v # w PROVE AskedPicked(v)' /\ HandlerServes(v)'
    BY <1>1, <2>1
    DEF Good, WizardInv, AskedPicked, HandlerServes, BallotAsked, BallotOf, OthersServe, OthersRun
  <2>2. AskedPicked(w)' /\ HandlerServes(w)'
    BY <1>1 DEF AskedPicked, HandlerServes
  <2>3. QED
    BY <2>1, <2>2
<1>5. ASSUME NEW x \in Sessions PROVE HeldPicked(x)' /\ LoggedOutIdle(x)'
  <2>1. HeldPicked(x) /\ LoggedOutIdle(x)
    BY DEF Good, WizardInv
  <2>2. CASE x # s
    BY <1>1, <2>1, <2>2 DEF HeldPicked, LoggedOutIdle, BallotHeld, OthersWait
  <2>3. CASE x = s
    <3>1. /\ ask.user \in Users /\ ask.topic \in Topics /\ ask.option \in Options
          /\ wizard[x].user = ask.user
          /\ ask.kind # "initiate" => wizard[x].step = "otp_pending"
          /\ [user |-> ask.user, topic |-> ask.topic, option |-> ask.option] \in Chosen
      BY <1>2, <2>3, VotingAssumption
      DEF Attached, Agrees, AskedPicked, BallotAsked, Good, ServingTyped, Serving, FlowRequest
    <3>2. wizard'[x].user # NULL
      BY <1>1, <2>3, <3>1, VotingAssumption DEF Fields
    <3>3. s # NULL
      BY <2>3
    <3>4. HeldPicked(x)'
      BY <1>1, <2>1, <2>3, <3>1, <3>3 DEF HeldPicked, BallotHeld, Fields
    <3>5. QED
      BY <3>2, <3>4 DEF LoggedOutIdle
  <2>4. QED
    BY <2>2, <2>3
<1>6. ASSUME NEW v \in Workers, NEW x \in Sessions PROVE Agrees(v, x)'
  <2>1. CASE Attached(v, x) /\ v # w
    <3>1. x # s
      BY <2>1 DEF Good, WizardInv, Attached
    <3>2. QED
      BY <1>1, <2>1, <3>1 DEF Good, WizardInv, Agrees, OthersServe, OthersWait
  <2>2. CASE ~(Attached(v, x) /\ v # w)
    BY <1>3, <2>2 DEF Agrees
  <2>3. QED
    BY <2>1, <2>2
<1>7. PickedTyped'
  BY DEF Good, PickedTyped
<1>8. QED
  BY <1>1, <1>3, <1>4, <1>5, <1>6, <1>7 DEF Good, WizardInv

\* The handler goes on within the request it serves.
LEMMA HandlerKeeps ==
  ASSUME Good, NEW w \in Workers, UNCHANGED <<serving, wizard, picked, handed>>, OthersRun(w),
         HandlerServes(w)'
  PROVE  Good'
<1> USE ChosenGrows
<1>1. \A v \in Workers : AskedPicked(v)'
  BY DEF Good, WizardInv, AskedPicked, BallotAsked
<1>2. \A v \in Workers : HandlerServes(v)'
  BY DEF Good, WizardInv, HandlerServes, BallotAsked, BallotOf, OthersRun
<1>3. \A x \in Sessions : HeldPicked(x)' /\ LoggedOutIdle(x)'
  BY DEF Good, WizardInv, HeldPicked, LoggedOutIdle, BallotHeld
<1>4. \A v \in Workers, x \in Sessions : Agrees(v, x)' /\ (Attached(v, x)' <=> Attached(v, x))
  BY DEF Good, WizardInv, Agrees, Attached
<1>5. QED
  BY <1>1, <1>2, <1>3, <1>4 DEF Good, WizardInv, ServingTyped, WizardTyped, PickedTyped

\* Whoever logs in finds in the session what it held.
LEMMA LoginKeeps ==
  ASSUME Good, NEW s \in Sessions, NEW u \in Users, Login(s, u), UNCHANGED <<pc, req>>
  PROVE  Good'
<1> DEFINE z == wizard[s]
           n == [z EXCEPT !.user = u]
           held == BallotHeld(s)
           found == [held EXCEPT !.user = u]
<1>1. wizard[s] \in Wizard /\ ~wizard[s].waiting /\ UNCHANGED <<serving, picked>>
  BY DEF Good, WizardTyped, Login
<1>2. Fields(n, u, z.step, z.topic, z.option, FALSE)
  BY <1>1, Turned DEF Wizard
<1>3. wizard' = [wizard EXCEPT ![s] = n]
  BY DEF Login, Set
<1>4. WizardTyped' /\ OthersWait(s) /\ wizard'[s] = n
  <2> HIDE DEF n
  <2>1. QED
    BY <1>2, <1>3 DEF Good, WizardTyped, OthersWait, Fields
<1>5. BallotHeld(s)' = found
  BY <1>1, <1>2, <1>4 DEF Fields, BallotHeld
<1>6. /\ handed' = handed \/ handed' = handed \cup {Found(found, z.step)}
      /\ z.user \in {NULL, u} \/ z.step = "list" \/ Found(found, z.step) \in handed'
  BY DEF Login
<1>7. Chosen \subseteq Chosen'
  BY <1>1, <1>6, ChosenGrows
<1>8. HeldPicked(s) /\ LoggedOutIdle(s)
  BY DEF Good, WizardInv
<1>9. z.step # "list" => /\ z.topic \in Topics /\ z.option \in Options /\ z.user \in Users
                         /\ held \in Ballot /\ found \in Ballot
  BY <1>1, <1>8, VotingAssumption DEF HeldPicked, LoggedOutIdle, Wizard, BallotHeld, Ballot
<1>10. PickedTyped'
  <2>1. CASE handed' = handed
    BY <1>1, <2>1 DEF Good, PickedTyped, Ballot
  <2>2. CASE handed' # handed
    <3>1. z.step # "list" /\ handed' = handed \cup {Found(found, z.step)}
      BY <2>2 DEF Login
    <3>2. Found(found, z.step) \in [user : Users, topic : Topics, option : Options, step : Steps]
      BY <1>1, <1>9, <3>1 DEF Found, Ballot, Wizard
    <3>3. QED
      BY <1>1, <3>1, <3>2 DEF Good, PickedTyped, Ballot
  <2>3. QED
    BY <2>1, <2>2
<1>11. z.step = "otp_pending" => found \in Chosen'
  <2> SUFFICES ASSUME z.step = "otp_pending" PROVE found \in Chosen'
    OBVIOUS
  <2>1. held \in Chosen /\ held \in Ballot /\ found \in Ballot /\ z.user \in Users
    BY <1>8, <1>9 DEF HeldPicked
  <2>2. CASE z.user = u
    BY <1>7, <2>1, <2>2 DEF BallotHeld
  <2>3. CASE z.user # u
    <3>1. Found(found, "otp_pending") \in handed'
      BY <1>6, <2>1, <2>3, VotingAssumption
    <3>2. \E v \in Users : [held EXCEPT !.user = v] \in picked
      <4>1. CASE held \in picked
        <5>1. [held EXCEPT !.user = z.user] = held
          BY DEF BallotHeld
        <5>2. QED
          BY <2>1, <4>1, <5>1
      <4>2. CASE held \notin picked
        BY <2>1, <4>2 DEF Chosen, HandedOn
      <4>3. QED
        BY <4>1, <4>2
    <3>3. \A v \in Users : [held EXCEPT !.user = v] = [found EXCEPT !.user = v]
      BY DEF BallotHeld
    <3>4. \E v \in Users : [found EXCEPT !.user = v] \in picked'
      BY <1>1, <3>2, <3>3
    <3> HIDE DEF found
    <3>5. QED
      BY <2>1, <3>1, <3>4 DEF Chosen, HandedOn
  <2>4. QED
    BY <2>2, <2>3
<1>12. \A x \in Sessions : HeldPicked(x)' /\ LoggedOutIdle(x)'
  <2>1. HeldPicked(s)'
    <3> HIDE DEF found
    <3>1. QED
      BY <1>2, <1>4, <1>5, <1>9, <1>11 DEF HeldPicked, Fields
  <2>2. LoggedOutIdle(s)'
    BY <1>2, <1>4, VotingAssumption DEF LoggedOutIdle, Fields
  <2>3. ASSUME NEW x \in Sessions, x # s PROVE HeldPicked(x)' /\ LoggedOutIdle(x)'
    BY <1>4, <1>7, <2>3
    DEF Good, WizardInv, HeldPicked, LoggedOutIdle, BallotHeld, OthersWait
  <2>4. QED
    BY <2>1, <2>2, <2>3
<1>13. \A w \in Workers : AskedPicked(w)' /\ HandlerServes(w)'
  BY <1>1, <1>7 DEF Good, WizardInv, AskedPicked, HandlerServes, BallotAsked, BallotOf
<1>14. \A w \in Workers, x \in Sessions : Attached(w, x)' <=> Attached(w, x)
  BY <1>1 DEF Attached
<1>15. \A w \in Workers, x \in Sessions : Agrees(w, x)'
  BY <1>1, <1>4, <1>14, NobodyServes DEF Good, WizardInv, Agrees, OthersWait
<1>16. QED
  BY <1>1, <1>4, <1>10, <1>12, <1>13, <1>14, <1>15 DEF Good, WizardInv, ServingTyped

LEMMA WizardKeeps ==
  ASSUME TypeOK, Good, NEW s \in Sessions, WizardStep(s)
  PROVE  Good'
<1>1. UNCHANGED <<pc, req>> /\ wizard[s] \in Wizard
  BY DEF WizardStep, vars, Good, WizardTyped
<1>2. ASSUME NEW u \in Users, Login(s, u) PROVE Good'
  BY <1>1, <1>2, LoginKeeps
<1> SUFFICES ASSUME handed' = handed,
                    \/ Logout(s) \/ Cancel(s) \/ BackToTopics(s) \/ GiveUp(s)
                    \/ \E w \in Workers :
                          \/ \E t \in Topics, o \in Options : Pick(s, w, t, o)
                          \/ Confirm(s, w) \/ ResendOtp(s, w)
             PROVE  Good'
  BY <1>2 DEF WizardStep
<1>3. CASE Logout(s)
  <2>1. LoggedOut \in Wizard /\ LoggedOut.step = "list"
    BY DEF LoggedOut, Wizard, Steps
  <2>2. /\ wizard' = [wizard EXCEPT ![s] = LoggedOut] /\ UNCHANGED <<serving, picked>>
        /\ ~wizard[s].waiting
    BY <1>3 DEF Logout, Set, Acts
  <2>3. QED
    BY <1>1, <2>1, <2>2, BackToList
<1>4. CASE Cancel(s) \/ BackToTopics(s)
  <2> DEFINE z == [wizard[s] EXCEPT !.step = "list"]
  <2>1. z \in Wizard /\ z.step = "list"
    BY <1>1 DEF Wizard, Steps
  <2>2. /\ wizard' = [wizard EXCEPT ![s] = z] /\ UNCHANGED <<serving, picked>>
        /\ ~wizard[s].waiting
    BY <1>4 DEF Cancel, BackToTopics, Set, Acts
  <2> HIDE DEF z
  <2>3. QED
    BY <1>1, <2>1, <2>2, BackToList
<1>5. CASE GiveUp(s)
  BY <1>1, <1>5, GiveUpKeeps
<1>6. ASSUME NEW w \in Workers, NEW t \in Topics, NEW o \in Options, Pick(s, w, t, o) PROVE Good'
  <2>1. /\ Acts(s) /\ Send(s, w, "initiate", t, o)
        /\ picked' = picked \cup {[user |-> wizard[s].user, topic |-> t, option |-> o]}
    BY <1>6 DEF Pick
  <2>2. wizard[s].user \in Users
    BY <1>1, <2>1 DEF Acts, Wizard
  <2>3. PickedTyped' /\ Choice(s, t, o) \in picked' /\ Chosen \subseteq Chosen'
    BY <2>1, <2>2, ChosenGrows DEF Good, PickedTyped, Choice, Ballot
  <2>4. Choice(s, t, o) \in Chosen'
    BY <2>3 DEF Chosen, HandedOn
  <2>5. QED
    BY <1>1, <2>1, <2>3, <2>4, SendKeeps
<1>7. ASSUME NEW w \in Workers, Confirm(s, w) \/ ResendOtp(s, w) PROVE Good'
  <2>1. Acts(s) /\ wizard[s].step = "otp_pending" /\ picked' = picked
    BY <1>7 DEF Confirm, ResendOtp
  <2>2. BallotHeld(s) \in Chosen /\ Chosen \subseteq Chosen'
    BY <2>1, ChosenGrows DEF Good, WizardInv, HeldPicked
  <2>3. wizard[s].topic \in Topics /\ wizard[s].option \in Options /\ PickedTyped'
    BY <2>1 DEF Good, WizardInv, HeldPicked, PickedTyped, Ballot
  <2>4. \/ Send(s, w, "cast", wizard[s].topic, wizard[s].option)
        \/ Send(s, w, "resend", wizard[s].topic, wizard[s].option)
    BY <1>7 DEF Confirm, ResendOtp
  <2>5. PICK topic \in Topics, option \in Options :
           topic = wizard[s].topic /\ option = wizard[s].option
    BY <2>3
  <2>6. Choice(s, topic, option) \in Chosen'
    BY <2>1, <2>2, <2>5 DEF BallotHeld, Choice
  <2>7. CASE Send(s, w, "cast", topic, option)
    BY <1>1, <2>1, <2>2, <2>3, <2>5, <2>6, <2>7, SendKeeps
  <2>8. CASE Send(s, w, "resend", topic, option)
    BY <1>1, <2>1, <2>2, <2>3, <2>5, <2>6, <2>8, SendKeeps
  <2>9. QED
    BY <2>4, <2>5, <2>7, <2>8
<1>8. QED
  BY <1>3, <1>4, <1>5, <1>6, <1>7

LEMMA RouteKeeps ==
  ASSUME TypeOK, Good, Desk!TypeOK, NEW w \in Workers, RouteStep(w), handed' = handed
  PROVE  Good'
<1> USE FlowAssumption
<1>0. HandlerServes(w)
  BY DEF Good, WizardInv
<1>a. ASSUME UNCHANGED vars PROVE UNCHANGED <<pc, req>> /\ OthersRun(w)
  BY <1>a DEF vars, OthersRun
<1>b. ASSUME UNCHANGED <<serving, wizard, picked, pc, req>> PROVE Good'
  BY <1>b, <1>0, HandlerKeeps DEF OthersRun, HandlerServes, BallotOf, BallotAsked
<1>1. CASE InitiateVote(w)
  <2>1. /\ serving[w] # NULL /\ pc[w] = "idle" /\ UNCHANGED <<vars, picked>>
        /\ Stage(w, "issue", 0) \/ Answer(w, FALSE)
        /\ serving[w].ask.kind # "cast"
    BY <1>0, <1>1 DEF InitiateVote, Serves, HandlerServes
  <2>2. QED
    BY <1>a, <2>1, StageKeeps, AnswerKeeps
<1>2. CASE IssueOtp(w)
  <2>1. /\ serving[w] # NULL /\ pc[w] = "idle" /\ UNCHANGED <<vars, picked>>
        /\ Answer(w, TRUE) \/ Answer(w, FALSE)
    BY <1>0, <1>2 DEF IssueOtp, HandlerServes
  <2>2. QED
    BY <1>a, <2>1, AnswerKeeps
<1>3. CASE CastVerify(w)
  <2>1. /\ serving[w] # NULL /\ pc[w] = "idle" /\ UNCHANGED <<vars, picked>>
        /\ UNCHANGED <<serving, wizard>> \/ Answer(w, FALSE)
    BY <1>0, <1>3 DEF CastVerify, Serves, HandlerServes
  <2>2. QED
    BY <1>a, <1>b, <2>1, AnswerKeeps
<1>4. CASE CastVerdict(w)
  <2>1. /\ serving[w] # NULL /\ pc[w] = "idle" /\ UNCHANGED <<vars, picked>>
        /\ Stage(w, "cast", Len(accepts) + 1) \/ Answer(w, FALSE)
    BY <1>0, <1>4 DEF CastVerdict, Serves, HandlerServes
  <2>2. PICK ticket \in Nat : ticket = Len(accepts) + 1
    BY DEF Desk!TypeOK
  <2>3. QED
    BY <1>a, <2>1, <2>2, StageKeeps, AnswerKeeps
<1>5. CASE CastBegin(w)
  <2> DEFINE r == serving[w].ask
  <2>1. /\ serving[w] # NULL /\ pc[w] = "idle" /\ UNCHANGED picked
        /\ \/ CastUser(w, r.user, r.topic, r.option) /\ UNCHANGED <<serving, wizard>>
           \/ Answer(w, FALSE) /\ UNCHANGED vars
        /\ r.kind = "cast" /\ serving[w].stage = "cast"
    BY <1>5 DEF CastBegin, Serves
  <2>2. CASE CastUser(w, r.user, r.topic, r.option) /\ UNCHANGED <<serving, wizard>>
    <3>1. /\ pc' = [pc EXCEPT ![w] = "topic"]
          /\ req' = [req EXCEPT ![w] = BallotAsked(w)]
      BY <2>2 DEF CastUser, BallotAsked
    <3>2. /\ pc'[w] = "topic" /\ req'[w] = BallotAsked(w) /\ OthersRun(w)
      BY <3>1 DEF TypeOK, OthersRun
    <3>3. HandlerServes(w)'
      BY <2>1, <2>2, <3>2 DEF HandlerServes, Casting, BallotOf, BallotAsked
    <3>4. QED
      BY <2>1, <2>2, <3>2, <3>3, HandlerKeeps
  <2>3. QED
    BY <1>a, <2>1, <2>2, AnswerKeeps
<1>6. CASE CastGoes(w)
  <2>1. /\ serving[w] # NULL /\ serving[w].ask.kind = "cast" /\ serving[w].stage = "cast"
        /\ UNCHANGED picked
        /\ CastTopic(w) \/ CastTracking(w) \/ CastCommit(w)
        /\ IF pc'[w] = "idle" THEN Answer(w, FALSE) ELSE UNCHANGED <<serving, wizard>>
    BY <1>6 DEF CastGoes, Serves
  <2>2. Return(w) \/ \E label \in Casting : Goto(w, label)
    BY <2>1 DEF CastTopic, CastTracking, CastCommit, Casting
  <2>3. pc[w] # "idle" /\ OthersRun(w)
    BY <2>1, <2>2 DEF CastTopic, CastTracking, CastCommit, Return, Goto, TypeOK, OthersRun
  <2>4. CASE Return(w)
    <3>1. pc'[w] = "idle"
      BY <2>4 DEF Return, TypeOK
    <3>2. QED
      BY <2>1, <2>3, <3>1, AnswerKeeps
  <2>5. ASSUME NEW label \in Casting, Goto(w, label) PROVE Good'
    <3>1. pc'[w] = label /\ req' = req
      BY <2>5 DEF Goto, TypeOK
    <3>2. UNCHANGED <<serving, wizard>>
      BY <2>1, <3>1 DEF Casting
    <3>3. HandlerServes(w)'
      BY <1>0, <2>1, <2>3, <3>1, <3>2 DEF HandlerServes, BallotOf, BallotAsked
    <3>4. QED
      BY <2>1, <2>3, <3>2, <3>3, HandlerKeeps
  <2>6. QED
    BY <2>2, <2>4, <2>5
<1>7. CASE CastEnds(w)
  <2>1. serving[w] # NULL /\ UNCHANGED picked /\ Return(w) /\ Answer(w, TRUE)
    BY <1>7 DEF CastEnds, Serves, CastAudit
  <2>2. pc'[w] = "idle" /\ OthersRun(w)
    BY <2>1 DEF Return, TypeOK, OthersRun
  <2>3. QED
    BY <2>1, <2>2, AnswerKeeps
<1>8. CASE RouteAborts(w)
  <2>1. /\ serving[w] # NULL /\ UNCHANGED picked /\ Answer(w, FALSE)
        /\ IF pc[w] = "idle" THEN UNCHANGED vars ELSE Return(w)
    BY <1>8 DEF RouteAborts, Abort
  <2>2. pc'[w] = "idle" /\ OthersRun(w)
    BY <2>1 DEF Return, TypeOK, OthersRun, vars
  <2>3. QED
    BY <2>1, <2>2, AnswerKeeps
<1>9. QED
  BY <1>1, <1>2, <1>3, <1>4, <1>5, <1>6, <1>7, <1>8 DEF RouteStep

LEMMA FlowKeeps ==
  ASSUME TypeOK, Good, Desk!TypeOK, [FlowNext]_fvars
  PROVE  Good'
<1>1. CASE Outside \/ UNCHANGED fvars
  <2>1. UNCHANGED <<serving, wizard, picked, handed, pc, req>>
    BY <1>1 DEF Outside, UpdateTopicStatus, ToggleUser, Tick, fvars, vars, flow
  <2>2. QED
    BY <2>1 DEF Good, ServingTyped, WizardTyped, PickedTyped, WizardInv, AskedPicked,
                HandlerServes, HeldPicked, LoggedOutIdle, Agrees, Attached, BallotOf,
                BallotAsked, BallotHeld, Chosen, HandedOn
<1>2. QED
  BY <1>1, WizardKeeps, RouteKeeps DEF FlowNext

-----------------------------------------------------------------------------
(* The flow runs the service and the desk as they are specified *)

FlowGood == TypeOK /\ Desk!TypeOK /\ Good

LEMMA FlowInvariant == FlowSpec => []FlowGood
<1> USE FlowAssumption, VotingAssumption
<1>1. FlowInit => FlowGood
  <2> SUFFICES ASSUME FlowInit PROVE FlowGood
    OBVIOUS
  <2>1. TypeOK
    BY DEF FlowInit, Init, TypeOK, NoRequest, Request, Casting
  <2>2. Desk!TypeOK
    BY DEF FlowInit, Desk!Init, Desk!TypeOK
  <2>3. ServingTyped /\ WizardTyped /\ PickedTyped
    BY DEF FlowInit, ServingTyped, WizardTyped, PickedTyped, LoggedOut, Wizard, Steps
  <2>4. WizardInv
    BY DEF FlowInit, Init, WizardInv, AskedPicked, HandlerServes, HeldPicked, LoggedOutIdle,
           Agrees, Attached, LoggedOut
  <2>5. QED
    BY <2>1, <2>2, <2>3, <2>4 DEF FlowGood, Good
<1>2. FlowGood /\ [FlowNext]_fvars => FlowGood'
  <2> SUFFICES ASSUME FlowGood, [FlowNext]_fvars PROVE FlowGood'
    OBVIOUS
  <2>1. TypeOK /\ Desk!TypeOK /\ Good /\ ServingTyped
    BY DEF FlowGood, Good
  <2>2. TypeOK'
    BY <2>1, BackendSteps, TypingStep
  <2>3. Desk!TypeOK'
    BY <2>1, DeskSteps, DeskKeeps
  <2>4. Good'
    BY <2>1, FlowKeeps
  <2>5. QED
    BY <2>2, <2>3, <2>4 DEF FlowGood
<1>3. QED
  BY <1>1, <1>2, PTL DEF FlowSpec, fvars

\* Whatever sessions and routes do, VotingService runs underneath as it is specified, so
\* each of its theorems holds of the flow too.
THEOREM Underneath == FlowSpec => Spec
<1>1. FlowInit => Init
  BY DEF FlowInit
<1>2. FlowGood /\ [FlowNext]_fvars => [Next]_vars
  BY BackendSteps DEF FlowGood, Good
<1>3. QED
  BY <1>1, <1>2, FlowInvariant, PTL DEF FlowSpec, Spec, fvars

\* The same of the OTP desk.
THEOREM DeskUnderneath == FlowSpec => Desk!Spec
<1>1. FlowInit => Desk!Init
  BY DEF FlowInit
<1>2. FlowGood /\ [FlowNext]_fvars => [Desk!Next]_<<rows, loaded, accepts>>
  BY DeskSteps DEF FlowGood, Good, desk
<1>3. QED
  BY <1>1, <1>2, FlowInvariant, PTL DEF FlowSpec, Desk!Spec, fvars

-----------------------------------------------------------------------------
(* What residents chose is what counts *)

LEMMA HistoriesGrow ==
  ASSUME [FlowNext]_fvars
  PROVE  picked \subseteq picked' /\ handed \subseteq handed'
<1>1. ASSUME NEW s \in Sessions, WizardStep(s) PROVE picked \subseteq picked' /\ handed \subseteq handed'
  <2>1. CASE \E u \in Users : Login(s, u)
    BY <2>1 DEF Login
  <2>2. CASE handed' = handed /\ ~\E u \in Users : Login(s, u)
    BY <1>1, <2>2
    DEF WizardStep, Logout, Cancel, BackToTopics, GiveUp, Pick, Confirm, ResendOtp
  <2>3. QED
    BY <1>1, <2>1, <2>2 DEF WizardStep
<1>2. ASSUME NEW w \in Workers, RouteStep(w), handed' = handed
      PROVE  picked \subseteq picked' /\ handed \subseteq handed'
  BY <1>2 DEF RouteStep, InitiateVote, IssueOtp, CastVerify, CastVerdict, CastBegin, CastGoes,
              CastEnds, RouteAborts
<1>3. CASE Outside \/ UNCHANGED fvars
  BY <1>3 DEF Outside, fvars, flow
<1>4. QED
  BY <1>1, <1>2, <1>3 DEF FlowNext

\* VoteAsChosen: the ballots in the table were picked by their residents in the wizard, or
\* found there by logging in over the session of whoever picked them, whatever answers came
\* late.
THEOREM AsChosen == FlowSpec => []VoteAsChosen
<1>1. FlowInit => VoteAsChosen
  BY DEF FlowInit, Init, VoteAsChosen, ballots
<1>2. FlowGood /\ VoteAsChosen /\ [FlowNext]_fvars => VoteAsChosen'
  <2> SUFFICES ASSUME FlowGood, VoteAsChosen, [FlowNext]_fvars PROVE VoteAsChosen'
    OBVIOUS
  <2>1. TypeOK /\ [Next]_vars /\ WizardInv
    BY BackendSteps DEF FlowGood, Good
  <2>2. Chosen \subseteq Chosen'
    BY HistoriesGrow, ChosenGrows
  <2>a. ballots \subseteq Chosen /\ (VoteAsChosen' <=> ballots' \subseteq Chosen')
    BY DEF VoteAsChosen, Chosen
  <2>3. CASE UNCHANGED <<votes, vote_tracking>>
    <3>1. ballots' = ballots
      BY <2>3 DEF ballots, Voter
    <3>2. QED
      BY <2>2, <2>a, <3>1
  <2>4. ASSUME NEW w \in Workers, AddsPair(w) PROVE VoteAsChosen'
    <3>1. ballots' = ballots \cup {BallotOf(w)}
      BY <2>1, <2>4, BallotsGrow
    <3>2. pc[w] = "commit"
      BY <2>4 DEF AddsPair
    <3>3. BallotOf(w) \in Chosen
      BY <2>1, <3>2 DEF WizardInv, AskedPicked, HandlerServes
    <3>4. QED
      BY <2>2, <2>a, <3>1, <3>3
  <2>5. QED
    BY <2>1, <2>3, <2>4, TableSteps
<1>3. QED
  BY <1>1, <1>2, FlowInvariant, PTL DEF FlowSpec, fvars

-----------------------------------------------------------------------------
(* What sessions are told is what counts *)

\* A session that shows a recorded vote did so before, or just got the answer of a
\* worker that cast the ballot it holds; or somebody logged in over it.
LEMMA ShownVotes ==
  ASSUME FlowGood, [FlowNext]_fvars, NEW s \in Sessions, wizard'[s].step = "voted",
         \A u \in Users : ~Login(s, u)
  PROVE  /\ BallotHeld(s)' = BallotHeld(s)
         /\ \/ wizard[s].step = "voted"
            \/ \E w \in Workers : pc[w] = "audit" /\ BallotHeld(s) = BallotOf(w)
<1> USE FlowAssumption
<1> DEFINE same == BallotHeld(s)' = BallotHeld(s) /\ wizard[s].step = "voted"
<1>1. TypeOK /\ Good /\ ServingTyped /\ WizardTyped /\ wizard[s] \in Wizard
  BY DEF FlowGood, Good, WizardTyped
<1>a. ASSUME wizard'[s] = wizard[s] PROVE same
  BY <1>a DEF BallotHeld
<1>b. ASSUME NEW b \in BOOLEAN,
             Fields(wizard'[s], wizard[s].user, wizard[s].step, wizard[s].topic, wizard[s].option, b)
      PROVE  same
  BY <1>b DEF BallotHeld, Fields
<1>c. ASSUME NEW w \in Workers, serving[w] # NULL, Answer(w, FALSE) PROVE same
  <2>1. OthersWait(serving[w].ask.session)
    BY <1>1, <1>c, AnswerEffect
  <2>2. CASE serving[w].ask.session # s
    BY <1>a, <2>1, <2>2 DEF OthersWait
  <2>3. CASE serving[w].ask.session = s
    BY <1>1, <1>b, <1>c, <2>3, AnswerEffect
  <2>4. QED
    BY <2>2, <2>3
<1>2. ASSUME NEW z \in Sessions, WizardStep(z) PROVE same
  <2>1. CASE Logout(z) \/ Cancel(z) \/ BackToTopics(z)
    <3>1. CASE z # s
      BY <1>1, <1>a, <2>1, <3>1 DEF Logout, Cancel, BackToTopics, Set, WizardTyped
    <3>2. CASE z = s
      BY <1>1, <2>1, <3>2 DEF Logout, Cancel, BackToTopics, Set, WizardTyped, Wizard, LoggedOut
    <3>3. QED
      BY <3>1, <3>2
  <2>2. ASSUME NEW u \in Users, Login(z, u) PROVE same
    <3>1. z # s
      BY <2>2
    <3>2. QED
      BY <1>1, <1>a, <2>2, <3>1 DEF Login, Set, WizardTyped
  <2>3. CASE GiveUp(z)
    <3>1. /\ OthersWait(z)
          /\ Fields(wizard'[z], wizard[z].user, wizard[z].step, wizard[z].topic, wizard[z].option, FALSE)
      BY <1>1, <2>3, GiveUpEffect
    <3>2. QED
      BY <1>a, <1>b, <3>1 DEF OthersWait
  <2>4. ASSUME NEW w \in Workers, NEW kind, NEW topic, NEW option, Send(z, w, kind, topic, option)
        PROVE  same
    <3>1. wizard' = [wizard EXCEPT ![z] = [wizard[z] EXCEPT !.waiting = TRUE]]
      BY <2>4 DEF Send, Set
    <3>2. wizard[z] \in Wizard
      BY <1>1 DEF WizardTyped
    <3>3. QED
      BY <1>1, <3>1, <3>2 DEF WizardTyped, Wizard, BallotHeld
  <2>5. QED
    BY <1>2, <2>1, <2>2, <2>3, <2>4 DEF WizardStep, Pick, Confirm, ResendOtp
<1>3. ASSUME NEW w \in Workers, InitiateVote(w) \/ CastVerify(w) \/ CastVerdict(w) \/ CastBegin(w)
                                \/ CastGoes(w) \/ RouteAborts(w)
      PROVE  same
  <2>1. serving[w] # NULL /\ (wizard' = wizard \/ Answer(w, FALSE))
    BY <1>3 DEF InitiateVote, CastVerify, CastVerdict, CastBegin, CastGoes, RouteAborts, Serves, Stage
  <2>2. QED
    BY <1>a, <1>c, <2>1
<1>4. ASSUME NEW w \in Workers, IssueOtp(w) PROVE same
  <2>1. /\ serving[w] # NULL /\ serving[w].stage = "issue"
        /\ Answer(w, TRUE) \/ Answer(w, FALSE)
    BY <1>4 DEF IssueOtp
  <2>2. serving[w].ask.kind # "cast"
    BY <1>1, <2>1 DEF Good, WizardInv, AskedPicked
  <2>3. CASE Answer(w, TRUE)
    <3>1. OthersWait(serving[w].ask.session)
      BY <1>1, <2>1, <2>3, AnswerEffect
    <3>2. CASE serving[w].ask.session # s
      BY <1>a, <3>1, <3>2 DEF OthersWait
    <3>3. CASE serving[w].ask.session = s
      <4>1. \/ Fields(wizard'[s], wizard[s].user, "otp_pending", serving[w].ask.topic,
                      serving[w].ask.option, FALSE)
            \/ Fields(wizard'[s], wizard[s].user, wizard[s].step, wizard[s].topic,
                      wizard[s].option, FALSE)
        BY <1>1, <2>1, <2>2, <2>3, <3>3, AnswerEffect
      <4>2. QED
        BY <1>b, <4>1 DEF Fields
    <3>4. QED
      BY <3>2, <3>3
  <2>4. QED
    BY <1>c, <2>1, <2>3
<1>5. ASSUME NEW w \in Workers, CastEnds(w)
      PROVE  same \/ (/\ BallotHeld(s)' = BallotHeld(s)
                      /\ pc[w] = "audit" /\ BallotHeld(s) = BallotOf(w))
  <2>1. serving[w] # NULL /\ serving[w].ask.kind = "cast" /\ pc[w] = "audit" /\ Answer(w, TRUE)
    BY <1>5 DEF CastEnds, CastAudit, Serves
  <2>2. OthersWait(serving[w].ask.session)
    BY <1>1, <2>1, AnswerEffect
  <2>3. CASE serving[w].ask.session # s
    BY <1>a, <2>2, <2>3 DEF OthersWait
  <2>4. CASE serving[w].ask.session = s
    <3>1. \/ Fields(wizard'[s], wizard[s].user, "voted", wizard[s].topic, wizard[s].option, FALSE)
          \/ Fields(wizard'[s], wizard[s].user, wizard[s].step, wizard[s].topic,
                    wizard[s].option, FALSE)
      BY <1>1, <2>1, <2>4, AnswerEffect
    <3>2. BallotHeld(s)' = BallotHeld(s)
      BY <3>1 DEF Fields, BallotHeld
    <3>3. Agrees(w, s) /\ HandlerServes(w)
      BY <1>1 DEF Good, WizardInv
    <3>4. BallotHeld(s) = BallotAsked(w) /\ BallotOf(w) = BallotAsked(w)
      BY <2>1, <2>4, <3>3 DEF Agrees, Attached, HandlerServes, BallotHeld, BallotAsked
    <3>5. QED
      BY <2>1, <3>2, <3>4
  <2>5. QED
    BY <2>3, <2>4
<1>6. CASE Outside \/ UNCHANGED fvars
  BY <1>a, <1>6 DEF Outside, fvars, flow
<1>7. QED
  BY <1>2, <1>3, <1>4, <1>5, <1>6 DEF FlowNext, RouteStep

\* The choices a session may show as recorded.
Counted == HandedOn("voted", ballots)

\* ConfirmedIsCounted: a session that shows a recorded vote has it counted, for the resident
\* logged in or for one over whose session the resident logged in.
THEOREM Confirmed == FlowSpec => []ConfirmedIsCounted
<1>1. FlowInit => ConfirmedIsCounted
  BY DEF FlowInit, LoggedOut, ConfirmedIsCounted
<1>2. FlowGood /\ Landed /\ ConfirmedIsCounted /\ [FlowNext]_fvars => ConfirmedIsCounted'
  <2> SUFFICES ASSUME FlowGood, Landed, ConfirmedIsCounted, [FlowNext]_fvars,
                      NEW s \in Sessions, wizard'[s].step = "voted"
               PROVE  BallotHeld(s)' \in Counted'
    BY DEF ConfirmedIsCounted, Counted
  <2>1. TypeOK /\ [Next]_vars
    BY BackendSteps DEF FlowGood, Good
  <2>2. ballots \subseteq ballots'
    <3>1. CASE UNCHANGED <<votes, vote_tracking>>
      BY <3>1 DEF ballots, Voter
    <3>2. ASSUME NEW w \in Workers, AddsPair(w) PROVE ballots \subseteq ballots'
      BY <2>1, <3>2, BallotsGrow
    <3>3. QED
      BY <2>1, <3>1, <3>2, TableSteps
  <2>3. Counted \subseteq Counted' /\ ballots \subseteq Counted
    BY <2>2, HistoriesGrow DEF Counted, HandedOn
  <2>4. wizard[s].step = "voted" => BallotHeld(s) \in Counted
    BY DEF ConfirmedIsCounted, Counted
  <2>5. CASE \A u \in Users : ~Login(s, u)
    <3>1. BallotHeld(s)' = BallotHeld(s) /\ BallotHeld(s) \in Counted
      BY <2>3, <2>4, <2>5, ShownVotes DEF Landed
    <3>2. QED
      BY <2>3, <3>1
  <2>6. ASSUME NEW u \in Users, Login(s, u) PROVE BallotHeld(s)' \in Counted'
    <3> DEFINE z == wizard[s]
               held == BallotHeld(s)
               found == [held EXCEPT !.user = u]
    <3>1. z \in Wizard /\ HeldPicked(s) /\ LoggedOutIdle(s)
      BY DEF FlowGood, Good, WizardTyped, WizardInv
    <3>2. wizard'[s] = [z EXCEPT !.user = u]
      BY <2>6 DEF Login, Set, FlowGood, Good, WizardTyped
    <3>3. z.step = "voted" /\ BallotHeld(s)' = found
      BY <3>1, <3>2 DEF Wizard, BallotHeld
    <3>4. /\ held \in Counted /\ z.user \in Users /\ held \in Ballot /\ found \in Ballot
      BY <2>4, <3>1, <3>3, VotingAssumption
      DEF HeldPicked, LoggedOutIdle, Wizard, BallotHeld, Ballot
    <3>5. CASE z.user = u
      BY <2>3, <3>3, <3>4, <3>5 DEF BallotHeld
    <3>6. CASE z.user # u
      <4>1. Found(found, "voted") \in handed'
        BY <2>6, <3>3, <3>4, <3>6, VotingAssumption DEF Login
      <4>2. \E v \in Users : [held EXCEPT !.user = v] \in ballots
        <5>1. CASE held \in ballots
          <6>1. [held EXCEPT !.user = z.user] = held
            BY DEF BallotHeld
          <6>2. QED
            BY <3>4, <5>1, <6>1
        <5>2. CASE held \notin ballots
          BY <3>4, <5>2 DEF Counted, HandedOn
        <5>3. QED
          BY <5>1, <5>2
      <4>3. \A v \in Users : [held EXCEPT !.user = v] = [found EXCEPT !.user = v]
        BY DEF BallotHeld
      <4>4. \E v \in Users : [found EXCEPT !.user = v] \in ballots'
        BY <2>2, <4>2, <4>3
      <4> HIDE DEF found
      <4>5. QED
        BY <3>3, <3>4, <4>1, <4>4 DEF Counted, HandedOn
    <3>7. QED
      BY <3>5, <3>6
  <2>7. QED
    BY <2>5, <2>6
<1>3. QED
  BY <1>1, <1>2, Underneath, LandedInvariant, FlowInvariant, PTL DEF FlowSpec, fvars

-----------------------------------------------------------------------------
(* An acceptance behind each vote *)

\* The acceptance at a position of accepts is of an OTP of u.
AcceptedFrom(ticket, u) == ticket \in DOMAIN accepts /\ rows[accepts[ticket].log].key = u

InCast(w) == serving[w] # NULL /\ serving[w].stage = "cast"

\* Only /vote/cast verifies, and against an OTP of who asks.
LoadsOwn(w) ==
    loaded[w] # 0 =>
        /\ serving[w] # NULL /\ serving[w].ask.kind = "cast" /\ serving[w].stage = "begin"
        /\ rows[loaded[w]].key = serving[w].ask.user

\* A route past its verdict has an acceptance of its own, not yet spent on a vote.
HasTicket(w) ==
    InCast(w) =>
        /\ AcceptedFrom(serving[w].ticket, serving[w].ask.user)
        /\ pc[w] # "audit" => \A i \in DOMAIN vouchers : vouchers[i] # serving[w].ticket

TicketsDiffer(v, w) == v # w /\ InCast(v) /\ InCast(w) => serving[v].ticket # serving[w].ticket

VouchInv ==
    /\ \A w \in Workers : LoadsOwn(w) /\ HasTicket(w)
    /\ \A v, w \in Workers : TicketsDiffer(v, w)
    /\ vouchers \in Seq(Nat)
    /\ Vouching

Kept(w) ==
    /\ serving[w] = NULL <=> serving'[w] = NULL
    /\ serving[w] # NULL =>
          /\ serving'[w].ask.user = serving[w].ask.user
          /\ serving'[w].ask.kind = serving[w].ask.kind
          /\ serving'[w].stage = serving[w].stage
          /\ serving'[w].ticket = serving[w].ticket
    /\ loaded'[w] = loaded[w]
    /\ pc'[w] = pc[w]

Settled(w) ==
    /\ LoadsOwn(w)'
    /\ InCast(w)' => /\ InCast(w)
                     /\ serving'[w].ask.user = serving[w].ask.user
                     /\ serving'[w].ticket = serving[w].ticket
                     /\ pc[w] = "audit" => pc'[w] = "audit"

DeskMoves == Desk!Next \/ UNCHANGED desk

LEMMA AcceptancesStay ==
  ASSUME Desk!TypeOK, DeskMoves, NEW ticket, NEW u, AcceptedFrom(ticket, u)
  PROVE  AcceptedFrom(ticket, u)'
<1>1. ticket \in DOMAIN accepts' /\ accepts'[ticket] = accepts[ticket]
  BY DeskKeeps DEF AcceptedFrom, DeskMoves
<1>2. accepts[ticket].log \in DOMAIN rows
  BY DEF Desk!TypeOK, AcceptedFrom
<1>3. rows'[accepts[ticket].log].key = rows[accepts[ticket].log].key
  BY <1>2, DeskKeeps DEF DeskMoves
<1>4. QED
  BY <1>1, <1>3 DEF AcceptedFrom

\* A worker that keeps its request keeps what is said of it.
LEMMA KeptVouched ==
  ASSUME Desk!TypeOK, DeskMoves, VouchInv, NEW w \in Workers, Kept(w)
  PROVE  /\ LoadsOwn(w)'
         /\ InCast(w)' <=> InCast(w)
         /\ InCast(w) => /\ serving'[w].ask.user = serving[w].ask.user
                         /\ serving'[w].ticket = serving[w].ticket
<1>1. LoadsOwn(w)'
  <2>1. CASE loaded[w] # 0
    <3>1. loaded[w] \in DOMAIN rows
      BY <2>1 DEF Desk!TypeOK
    <3>2. rows'[loaded[w]].key = rows[loaded[w]].key
      BY <3>1, DeskKeeps DEF DeskMoves
    <3>3. LoadsOwn(w)
      BY DEF VouchInv
    <3>4. QED
      BY <2>1, <3>2, <3>3 DEF LoadsOwn, Kept
  <2>2. CASE loaded[w] = 0
    BY <2>2 DEF LoadsOwn, Kept
  <2>3. QED
    BY <2>1, <2>2
<1>2. QED
  BY <1>1 DEF Kept, InCast

\* Steps that neither accept an OTP nor add a vote.
LEMMA VouchQuiet ==
  ASSUME Desk!TypeOK, DeskMoves, VouchInv, UNCHANGED <<vouchers, votes>>,
         \A w \in Workers : Kept(w) \/ Settled(w)
  PROVE  VouchInv'
<1>1. ASSUME NEW w \in Workers
      PROVE  /\ LoadsOwn(w)'
             /\ InCast(w)' => /\ InCast(w)
                              /\ serving'[w].ask.user = serving[w].ask.user
                              /\ serving'[w].ticket = serving[w].ticket
                              /\ pc[w] = "audit" => pc'[w] = "audit"
  BY KeptVouched DEF Settled, Kept
<1>2. ASSUME NEW w \in Workers PROVE HasTicket(w)'
  <2>1. HasTicket(w)
    BY DEF VouchInv
  <2>2. CASE InCast(w)'
    <3>1. AcceptedFrom(serving[w].ticket, serving[w].ask.user)
      BY <1>1, <2>1, <2>2 DEF HasTicket
    <3>2. PICK ticket, u : ticket = serving[w].ticket /\ u = serving[w].ask.user
      OBVIOUS
    <3>3. AcceptedFrom(ticket, u)'
      BY <3>1, <3>2, AcceptancesStay
    <3>4. QED
      BY <1>1, <2>1, <2>2, <3>2, <3>3 DEF HasTicket, AcceptedFrom
  <2>3. CASE ~InCast(w)'
    BY <2>3 DEF HasTicket
  <2>4. QED
    BY <2>2, <2>3
<1>3. \A v, w \in Workers : TicketsDiffer(v, w)'
  BY <1>1 DEF VouchInv, TicketsDiffer
<1>4. Vouching'
  <2>1. ASSUME NEW i \in DOMAIN vouchers
        PROVE  AcceptedFrom(vouchers[i], Voter(votes[i]))'
    <3>1. AcceptedFrom(vouchers[i], Voter(votes[i]))
      BY DEF VouchInv, Vouching, AcceptedFrom
    <3>2. PICK ticket, u : ticket = vouchers[i] /\ u = Voter(votes[i])
      OBVIOUS
    <3>3. AcceptedFrom(ticket, u)'
      BY <3>1, <3>2, AcceptancesStay
    <3>4. QED
      BY <3>2, <3>3 DEF AcceptedFrom, Voter
  <2>2. QED
    BY <2>1 DEF VouchInv, Vouching, AcceptedFrom
<1>5. QED
  BY <1>1, <1>2, <1>3, <1>4 DEF VouchInv

LEMMA WizardVouched ==
  ASSUME FlowGood, VouchInv, NEW s \in Sessions, WizardStep(s)
  PROVE  VouchInv'
<1>1. /\ UNCHANGED <<votes, pc, loaded, vouchers>> /\ DeskMoves
      /\ Desk!TypeOK /\ ServingTyped /\ WizardTyped
  BY DEF WizardStep, vars, desk, DeskMoves, FlowGood, Good
<1>a. ASSUME NEW w \in Workers, serving'[w] = serving[w] PROVE Kept(w)
  BY <1>1, <1>a DEF Kept
<1>2. CASE UNCHANGED serving
  BY <1>1, <1>2, <1>a, VouchQuiet
<1>3. CASE GiveUp(s)
  <2>1. ASSUME NEW w \in Workers PROVE Kept(w)
    <3>1. /\ serving[w] = NULL => serving'[w] = NULL
          /\ serving[w] # NULL =>
                LET r == serving[w]  n == serving'[w] IN
                /\ n \in Serving
                /\ n.ask.kind = r.ask.kind /\ n.ask.user = r.ask.user
                /\ n.stage = r.stage /\ n.ticket = r.ticket
      BY <1>1, <1>3, GiveUpEffect
    <3>2. QED
      BY <1>1, <3>1, FlowAssumption DEF Kept
  <2>2. QED
    BY <1>1, <2>1, VouchQuiet
<1>4. ASSUME NEW w \in Workers, NEW kind, NEW topic, NEW option, Send(s, w, kind, topic, option)
      PROVE  VouchInv'
  <2> DEFINE n == [ask |-> [session |-> s, kind |-> kind, user |-> wizard[s].user,
                            topic |-> topic, option |-> option],
                   stage |-> IF kind = "resend" THEN "issue" ELSE "begin", ticket |-> 0]
  <2>1. serving' = [serving EXCEPT ![w] = n] /\ serving[w] = NULL /\ n.stage # "cast"
    BY <1>4 DEF Send, Idle
  <2> HIDE DEF n
  <2>2. serving'[w] = n /\ \A v \in Workers : v # w => serving'[v] = serving[v]
    BY <1>1, <2>1 DEF ServingTyped
  <2>3. LoadsOwn(w)
    BY DEF VouchInv
  <2>4. Settled(w)
    BY <1>1, <2>1, <2>2, <2>3 DEF Settled, LoadsOwn, InCast
  <2>5. QED
    BY <1>1, <1>a, <2>2, <2>4, VouchQuiet
<1>5. QED
  BY <1>2, <1>3, <1>4
  DEF WizardStep, Login, Logout, Cancel, BackToTopics, Pick, Confirm, ResendOtp

\* An acceptance, and the route that has it.
LEMMA AcceptVouched ==
  ASSUME FlowGood, VouchInv, NEW w \in Workers, Serves(w, "cast", "begin"), loaded[w] # 0,
         Desk!Accept(w), Stage(w, "cast", Len(accepts) + 1), UNCHANGED <<vars, vouchers>>
  PROVE  VouchInv'
<1> USE FlowAssumption
<1>1. /\ Desk!TypeOK /\ ServingTyped /\ DeskMoves /\ UNCHANGED <<votes, pc, vouchers>>
      /\ serving[w] # NULL /\ LoadsOwn(w) /\ HandlerServes(w)
  BY DEF FlowGood, Good, WizardInv, VouchInv, DeskMoves, Desk!Next, vars, Serves
<1>a. Len(accepts) \in Nat
  BY <1>1 DEF Desk!TypeOK
<1>b. PICK n \in Nat : n = Len(accepts)
  BY <1>a
<1>c. PICK asker : asker = serving[w].ask.user
  OBVIOUS
<1>2. n \in Nat /\ n + 1 \in Nat /\ DOMAIN accepts = 1 .. n
  BY <1>1, <1>b DEF Desk!TypeOK
<1>3. /\ OthersServe(w) /\ serving'[w] \in Serving
      /\ serving'[w].ask = serving[w].ask
      /\ serving'[w].stage = "cast" /\ serving'[w].ticket = n + 1
  BY <1>1, <1>2, <1>b, StageEffect
<1>4. /\ DOMAIN accepts' = 1 .. n + 1 /\ accepts'[n + 1].log = loaded[w]
      /\ loaded'[w] = 0 /\ \A v \in Workers : v # w => loaded'[v] = loaded[v]
  BY <1>1, <1>2, <1>b DEF Desk!Accept, Desk!TypeOK
<1>5. \A v \in Workers : v # w => Kept(v)
  BY <1>1, <1>3, <1>4 DEF Kept, OthersServe
<1>6. AcceptedFrom(n + 1, asker)'
  <2>1. rows[loaded[w]].key = asker /\ loaded[w] \in DOMAIN rows
    BY <1>1, <1>c DEF LoadsOwn, Desk!TypeOK
  <2>2. rows'[loaded[w]].key = rows[loaded[w]].key
    BY <1>1, <2>1, DeskKeeps DEF DeskMoves
  <2>3. n + 1 \in DOMAIN accepts'
    BY <1>2, <1>4
  <2>4. QED
    BY <1>3, <1>4, <2>1, <2>2, <2>3 DEF AcceptedFrom
<1>7. \A v \in Workers : v # w /\ InCast(v) => serving[v].ticket \in 1 .. n
  BY <1>2 DEF VouchInv, HasTicket, AcceptedFrom
<1>8. \A i \in DOMAIN vouchers : vouchers[i] \in 1 .. n
  BY <1>2 DEF VouchInv, Vouching
<1>9. ASSUME NEW v \in Workers PROVE LoadsOwn(v)' /\ HasTicket(v)'
  <2>1. CASE v = w
    <3>1. LoadsOwn(w)'
      BY <1>4 DEF LoadsOwn
    <3>2. HasTicket(w)'
      <4>1. serving'[w].ticket = n + 1 /\ serving'[w].ask.user = asker
        BY <1>3, <1>c
      <4>2. AcceptedFrom(serving[w].ticket, serving[w].ask.user)'
        BY <1>6, <4>1 DEF AcceptedFrom
      <4>3. \A i \in DOMAIN vouchers' : vouchers'[i] # serving'[w].ticket
        BY <1>1, <1>2, <1>8, <4>1
      <4>4. QED
        BY <4>2, <4>3 DEF HasTicket
    <3>3. QED
      BY <2>1, <3>1, <3>2
  <2>2. CASE v # w
    <3>1. /\ LoadsOwn(v)'
          /\ InCast(v)' <=> InCast(v)
          /\ InCast(v) => /\ serving'[v].ask.user = serving[v].ask.user
                          /\ serving'[v].ticket = serving[v].ticket
      BY <1>1, <1>5, <2>2, KeptVouched
    <3>2. CASE InCast(v)
      <4>1. HasTicket(v)
        BY DEF VouchInv
      <4>2. PICK ticket, u : ticket = serving[v].ticket /\ u = serving[v].ask.user
        OBVIOUS
      <4>3. AcceptedFrom(ticket, u)'
        BY <1>1, <3>2, <4>1, <4>2, AcceptancesStay DEF HasTicket
      <4>4. QED
        BY <1>1, <3>1, <3>2, <4>1, <4>2, <4>3 DEF HasTicket, AcceptedFrom
    <3>3. CASE ~InCast(v)
      BY <3>1, <3>3 DEF HasTicket
    <3>4. QED
      BY <3>1, <3>2, <3>3
  <2>3. QED
    BY <2>1, <2>2
<1>10. ASSUME NEW v \in Workers, NEW x \in Workers PROVE TicketsDiffer(v, x)'
  <2>1. \A y \in Workers : y # w =>
           /\ InCast(y)' <=> InCast(y)
           /\ InCast(y) => serving'[y].ticket = serving[y].ticket
    BY <1>1, <1>5, KeptVouched
  <2>2. CASE v # w /\ x # w
    BY <2>1, <2>2 DEF VouchInv, TicketsDiffer
  <2>3. CASE v = w /\ x # w
    BY <1>2, <1>3, <1>7, <2>1, <2>3 DEF TicketsDiffer
  <2>4. CASE v # w /\ x = w
    BY <1>2, <1>3, <1>7, <2>1, <2>4 DEF TicketsDiffer
  <2>5. QED
    BY <2>2, <2>3, <2>4 DEF TicketsDiffer
<1>11. Vouching'
  <2>1. ASSUME NEW i \in DOMAIN vouchers
        PROVE  AcceptedFrom(vouchers[i], Voter(votes[i]))'
    <3>1. AcceptedFrom(vouchers[i], Voter(votes[i]))
      BY DEF VouchInv, Vouching, AcceptedFrom
    <3>2. PICK ticket, u : ticket = vouchers[i] /\ u = Voter(votes[i])
      OBVIOUS
    <3>3. AcceptedFrom(ticket, u)'
      BY <1>1, <3>1, <3>2, AcceptancesStay
    <3>4. QED
      BY <1>1, <3>2, <3>3 DEF AcceptedFrom, Voter
  <2>2. QED
    BY <1>1, <2>1 DEF VouchInv, Vouching, AcceptedFrom
<1>12. QED
  BY <1>1, <1>9, <1>10, <1>11 DEF VouchInv

\* A vote, and the acceptance it is charged to.
LEMMA CommitVouched ==
  ASSUME FlowGood, VouchInv, NEW w \in Workers, CastGoes(w), AddsPair(w)
  PROVE  VouchInv'
<1>a. Len(votes) \in Nat
  BY DEF FlowGood, TypeOK
<1>b. PICK u, t, o : u = req[w].user /\ t = req[w].topic /\ o = req[w].option
  OBVIOUS
<1>c. PICK ticket : ticket = serving[w].ticket
  OBVIOUS
<1>d. PICK n \in Nat : n = Len(votes)
  BY <1>a
<1>1. /\ u \in Users /\ t \in Topics /\ o \in Options /\ pc[w] = "commit"
      /\ votes' = Append(votes, NewVote(u, t, o))
      /\ pc'[w] = "audit" /\ \A v \in Workers : v # w => pc'[v] = pc[v]
  BY <1>b DEF AddsPair, Goto, FlowGood, TypeOK
<1>2. /\ Desk!TypeOK /\ DeskMoves /\ InCast(w) /\ HasTicket(w) /\ HandlerServes(w)
      /\ UNCHANGED <<serving, rows, loaded, accepts>>
  BY <1>1 DEF CastGoes, Serves, InCast, FlowGood, Good, WizardInv, VouchInv, DeskMoves, desk
<1>3. /\ n \in Nat /\ Len(vouchers) = n /\ DOMAIN votes = 1 .. n /\ DOMAIN vouchers = 1 .. n
      /\ Len(votes') = n + 1 /\ votes'[n + 1] = NewVote(u, t, o)
      /\ \A i \in 1 .. n : votes'[i] = votes[i]
  BY <1>1, <1>d DEF FlowGood, TypeOK, VouchInv, Vouching
<1>4. ticket \in Nat /\ AcceptedFrom(ticket, u) /\ \A i \in 1 .. n : vouchers[i] # ticket
  <2>1. ticket \in DOMAIN accepts /\ DOMAIN accepts \subseteq Nat
    BY <1>2, <1>c DEF HasTicket, AcceptedFrom, Desk!TypeOK
  <2>2. u = serving[w].ask.user
    BY <1>1, <1>2, <1>b DEF HandlerServes, BallotOf, BallotAsked
  <2>3. QED
    BY <1>1, <1>2, <1>3, <1>c, <2>1, <2>2 DEF HasTicket
<1>5. vouchers' = Append(vouchers, ticket)
  <2>1. votes' # votes
    BY <1>3
  <2>2. QED
    BY <1>c, <2>1 DEF CastGoes
<1>6. /\ vouchers' \in Seq(Nat) /\ Len(vouchers') = n + 1 /\ DOMAIN vouchers' = 1 .. n + 1
      /\ vouchers'[n + 1] = ticket /\ \A i \in 1 .. n : vouchers'[i] = vouchers[i]
  BY <1>3, <1>4, <1>5 DEF VouchInv
<1>7. Voter(NewVote(u, t, o)) = u
  BY <1>1, RowOwner
<1>8. ASSUME NEW v \in Workers PROVE LoadsOwn(v)' /\ HasTicket(v)'
  <2>1. LoadsOwn(v)'
    BY <1>2 DEF VouchInv, LoadsOwn
  <2>2. /\ HasTicket(v)
        /\ AcceptedFrom(serving[v].ticket, serving[v].ask.user)' <=>
              AcceptedFrom(serving[v].ticket, serving[v].ask.user)
        /\ InCast(v)' <=> InCast(v)
    BY <1>2 DEF VouchInv, AcceptedFrom, InCast
  <2>3. CASE v = w
    <3>1. HasTicket(v)'
      BY <1>1, <2>2, <2>3 DEF HasTicket
    <3>2. QED
      BY <2>1, <3>1
  <2>4. CASE v # w /\ InCast(v)
    <3>1. serving[v].ticket # ticket /\ serving'[v] = serving[v] /\ pc'[v] = pc[v]
      BY <1>1, <1>2, <1>c, <2>4 DEF VouchInv, TicketsDiffer
    <3>2. pc[v] # "audit" => \A i \in DOMAIN vouchers' : vouchers'[i] # serving[v].ticket
      BY <1>3, <1>6, <2>2, <2>4, <3>1 DEF HasTicket
    <3>3. HasTicket(v)'
      BY <2>2, <3>1, <3>2 DEF HasTicket
    <3>4. QED
      BY <2>1, <3>3
  <2>5. CASE ~InCast(v)
    BY <2>1, <2>2, <2>5 DEF HasTicket
  <2>6. QED
    BY <2>3, <2>4, <2>5
<1>9. \A v, x \in Workers : TicketsDiffer(v, x)'
  BY <1>2 DEF VouchInv, TicketsDiffer, InCast
<1>10. ASSUME NEW i \in 1 .. n + 1 PROVE AcceptedFrom(vouchers[i], Voter(votes[i]))'
  <2>1. CASE i = n + 1
    <3>1. Voter(votes[i])' = u
      BY <1>3, <1>7, <2>1 DEF Voter
    <3>2. QED
      BY <1>2, <1>4, <1>6, <2>1, <3>1 DEF AcceptedFrom
  <2>2. CASE i \in 1 .. n
    <3>1. AcceptedFrom(vouchers[i], Voter(votes[i]))
      BY <1>3, <2>2 DEF VouchInv, Vouching, AcceptedFrom
    <3>2. Voter(votes[i])' = Voter(votes[i])
      BY <1>3, <2>2 DEF Voter
    <3>3. QED
      BY <1>2, <1>6, <2>2, <3>1, <3>2 DEF AcceptedFrom
  <2>3. QED
    BY <1>3, <2>1, <2>2
<1>11. \A i, j \in 1 .. n + 1 : vouchers'[i] = vouchers'[j] => i = j
  <2>1. \A i, j \in 1 .. n : vouchers[i] = vouchers[j] => i = j
    BY <1>3 DEF VouchInv, Vouching
  <2>2. \A i \in 1 .. n + 1 : i \in 1 .. n \/ i = n + 1
    BY <1>3
  <2>3. QED
    BY <1>4, <1>6, <2>1, <2>2
<1>12. Vouching'
  BY <1>3, <1>6, <1>10, <1>11 DEF Vouching, AcceptedFrom
<1>13. QED
  BY <1>6, <1>8, <1>9, <1>12 DEF VouchInv

LEMMA RouteVouched ==
  ASSUME FlowGood, VouchInv, NEW w \in Workers, RouteStep(w), handed' = handed
  PROVE  VouchInv'
<1> USE FlowAssumption
<1>1. /\ Desk!TypeOK /\ TypeOK /\ ServingTyped /\ WizardTyped
      /\ LoadsOwn(w) /\ HasTicket(w) /\ HandlerServes(w)
  BY DEF FlowGood, Good, WizardInv, VouchInv
<1>2. DeskMoves
  <2>1. [FlowNext]_fvars
    BY DEF FlowNext
  <2>2. QED
    BY <1>1, <2>1, DeskSteps DEF DeskMoves
\* The other workers keep what they have: it is enough that w is settled.
<1>a. ASSUME OthersServe(w), OthersRun(w), \A v \in Workers : v # w => loaded'[v] = loaded[v],
             UNCHANGED <<votes, vouchers>>, Settled(w)
      PROVE  VouchInv'
  <2>1. \A v \in Workers : v # w => Kept(v)
    BY <1>a DEF Kept, OthersServe, OthersRun
  <2>2. QED
    BY <1>1, <1>2, <1>a, <2>1, VouchQuiet
<1>b. ASSUME NEW success \in BOOLEAN, Answer(w, success), serving[w] # NULL, OthersRun(w),
             \A v \in Workers : v # w => loaded'[v] = loaded[v], loaded'[w] = 0,
             UNCHANGED <<votes, vouchers>>
      PROVE  VouchInv'
  <2>1. OthersServe(w) /\ serving'[w] = NULL
    BY <1>1, <1>b, AnswerEffect
  <2>2. Settled(w)
    BY <1>b, <2>1 DEF Settled, LoadsOwn, InCast
  <2>3. QED
    BY <1>a, <1>b, <2>1, <2>2
<1>c. ASSUME UNCHANGED vars PROVE UNCHANGED <<votes, pc>> /\ OthersRun(w)
  BY <1>c DEF vars, OthersRun
<1>d. ASSUME UNCHANGED desk PROVE \A v \in Workers : loaded'[v] = loaded[v]
  BY <1>d DEF desk
<1>e. ASSUME Desk!Refuse(w) \/ Desk!Exhaust(w)
      PROVE  loaded'[w] = 0 /\ \A v \in Workers : v # w => loaded'[v] = loaded[v]
  BY <1>1, <1>e DEF Desk!Refuse, Desk!Exhaust, Desk!TypeOK
<1>3. CASE InitiateVote(w)
  <2>1. /\ serving[w] # NULL /\ serving[w].ask.kind = "initiate"
        /\ UNCHANGED <<vars, desk, vouchers>>
        /\ Stage(w, "issue", 0) \/ Answer(w, FALSE)
    BY <1>3 DEF InitiateVote, Serves
  <2>2. loaded'[w] = 0
    BY <1>1, <1>d, <2>1 DEF LoadsOwn
  <2>3. CASE Stage(w, "issue", 0)
    <3>1. OthersServe(w) /\ serving'[w].stage = "issue"
      BY <1>1, <2>1, <2>3, StageEffect
    <3>2. Settled(w)
      BY <2>2, <3>1 DEF Settled, LoadsOwn, InCast
    <3>3. QED
      BY <1>a, <1>c, <1>d, <2>1, <3>1, <3>2
  <2>4. CASE Answer(w, FALSE)
    BY <1>b, <1>c, <1>d, <2>1, <2>2, <2>4
  <2>5. QED
    BY <2>1, <2>3, <2>4
<1>4. CASE IssueOtp(w)
  <2>1. /\ serving[w] # NULL /\ serving[w].stage = "issue" /\ UNCHANGED <<vars, vouchers>>
        /\ Answer(w, TRUE) \/ Answer(w, FALSE)
        /\ loaded' = loaded
    BY <1>4 DEF IssueOtp, Desk!Issue, desk
  <2>2. loaded'[w] = 0
    BY <1>1, <2>1 DEF LoadsOwn
  <2>3. QED
    BY <1>b, <1>c, <2>1, <2>2
<1>5. CASE CastVerify(w)
  <2>1. /\ serving[w] # NULL /\ serving[w].ask.kind = "cast" /\ serving[w].stage = "begin"
        /\ loaded[w] = 0 /\ UNCHANGED <<vars, vouchers>>
        /\ \/ Desk!Load(w, Asker(w)) /\ UNCHANGED <<serving, wizard>>
           \/ Answer(w, FALSE) /\ UNCHANGED desk
    BY <1>5 DEF CastVerify, Serves
  <2>2. CASE Desk!Load(w, Asker(w)) /\ UNCHANGED <<serving, wizard>>
    <3>1. PICK u : u = Asker(w)
      OBVIOUS
    <3>2. Desk!Load(w, u)
      BY <2>2, <3>1
    <3>3. PICK i \in DOMAIN rows : /\ rows[i].key = u /\ loaded' = [loaded EXCEPT ![w] = i]
                                   /\ UNCHANGED <<rows, accepts>>
      BY <3>2 DEF Desk!Load
    <3>4. loaded'[w] = i /\ \A v \in Workers : v # w => loaded'[v] = loaded[v]
      BY <1>1, <3>3 DEF Desk!TypeOK
    <3>5. Settled(w)
      BY <2>1, <2>2, <3>1, <3>3, <3>4 DEF Settled, LoadsOwn, InCast, Asker
    <3>6. QED
      BY <1>a, <1>c, <2>1, <2>2, <3>4, <3>5 DEF OthersServe
  <2>3. CASE Answer(w, FALSE) /\ UNCHANGED desk
    BY <1>b, <1>c, <1>d, <2>1, <2>3
  <2>4. QED
    BY <2>1, <2>2, <2>3
<1>6. CASE CastVerdict(w)
  <2>1. /\ Serves(w, "cast", "begin") /\ loaded[w] # 0 /\ UNCHANGED <<vars, vouchers>>
        /\ \/ Desk!Accept(w) /\ Stage(w, "cast", Len(accepts) + 1)
           \/ (Desk!Exhaust(w) \/ Desk!Refuse(w)) /\ Answer(w, FALSE)
    BY <1>6 DEF CastVerdict
  <2>2. CASE Desk!Accept(w) /\ Stage(w, "cast", Len(accepts) + 1)
    BY <2>1, <2>2, AcceptVouched
  <2>3. CASE (Desk!Exhaust(w) \/ Desk!Refuse(w)) /\ Answer(w, FALSE)
    <3>1. serving[w] # NULL
      BY <2>1 DEF Serves
    <3>2. QED
      BY <1>b, <1>c, <1>e, <2>1, <2>3, <3>1
  <2>4. QED
    BY <2>1, <2>2, <2>3
<1>f. ASSUME Serves(w, "cast", "cast") PROVE serving[w] # NULL /\ loaded[w] = 0
  BY <1>1, <1>f DEF Serves, LoadsOwn
<1>7. CASE CastBegin(w)
  <2> DEFINE r == serving[w].ask
  <2>1. /\ Serves(w, "cast", "cast") /\ pc[w] = "idle" /\ UNCHANGED <<desk, vouchers>>
        /\ \/ CastUser(w, r.user, r.topic, r.option) /\ UNCHANGED <<serving, wizard>>
           \/ Answer(w, FALSE) /\ UNCHANGED vars
    BY <1>7 DEF CastBegin
  <2>2. loaded'[w] = 0 /\ serving[w] # NULL
    BY <1>d, <1>f, <2>1
  <2>3. CASE CastUser(w, r.user, r.topic, r.option) /\ UNCHANGED <<serving, wizard>>
    <3>1. OthersRun(w) /\ OthersServe(w) /\ UNCHANGED votes
      BY <1>1, <2>3 DEF CastUser, TypeOK, OthersRun, OthersServe
    <3>2. Settled(w)
      BY <2>1, <2>2, <2>3 DEF Settled, LoadsOwn, InCast
    <3>3. QED
      BY <1>a, <1>d, <2>1, <3>1, <3>2
  <2>4. CASE Answer(w, FALSE) /\ UNCHANGED vars
    BY <1>b, <1>c, <1>d, <2>1, <2>2, <2>4
  <2>5. QED
    BY <2>1, <2>3, <2>4
<1>8. CASE CastGoes(w)
  <2>1. /\ Serves(w, "cast", "cast") /\ UNCHANGED desk
        /\ CastTopic(w) \/ CastTracking(w) \/ CastCommit(w)
        /\ IF pc'[w] = "idle" THEN Answer(w, FALSE) ELSE UNCHANGED <<serving, wizard>>
        /\ votes' = votes => vouchers' = vouchers
    BY <1>8 DEF CastGoes
  <2>2. loaded'[w] = 0 /\ serving[w] # NULL
    BY <1>d, <1>f, <2>1
  <2>3. Return(w) \/ \E label \in Casting : Goto(w, label)
    BY <2>1 DEF CastTopic, CastTracking, CastCommit, Casting
  <2>4. pc[w] # "audit" /\ OthersRun(w)
    BY <1>1, <2>1, <2>3 DEF CastTopic, CastTracking, CastCommit, Return, Goto, TypeOK, OthersRun
  <2>5. UNCHANGED votes \/ AddsPair(w)
    <3>1. CASE CastTopic(w) \/ CastTracking(w)
      BY <3>1 DEF CastTopic, CastTracking
    <3>2. CASE CastCommit(w) /\ UNCHANGED votes
      BY <3>2
    <3>3. CASE CastCommit(w) /\ votes' # votes
      <4>1. req[w].user \in Users /\ req[w].topic \in Topics /\ req[w].option \in Options
        BY <1>1, <3>3 DEF CastCommit, TypeOK, Casting
      <4>2. QED
        BY <3>3, <4>1 DEF CastCommit, AddsPair
    <3>4. QED
      BY <2>1, <3>1, <3>2, <3>3
  <2>6. CASE AddsPair(w)
    BY <1>8, <2>6, CommitVouched
  <2>7. CASE UNCHANGED votes
    <3>1. UNCHANGED <<votes, vouchers>>
      BY <2>1, <2>7
    <3>2. CASE Answer(w, FALSE)
      BY <1>b, <1>d, <2>1, <2>2, <2>4, <3>1, <3>2
    <3>3. CASE UNCHANGED <<serving, wizard>>
      <4>1. Settled(w) /\ OthersServe(w)
        BY <2>2, <2>4, <3>3 DEF Settled, LoadsOwn, InCast, OthersServe
      <4>2. QED
        BY <1>a, <1>d, <2>1, <2>4, <3>1, <4>1
    <3>4. QED
      BY <2>1, <3>2, <3>3
  <2>8. QED
    BY <2>5, <2>6, <2>7
<1>9. CASE CastEnds(w)
  <2>1. /\ Serves(w, "cast", "cast") /\ UNCHANGED <<desk, vouchers, votes>>
        /\ Return(w) /\ Answer(w, TRUE)
    BY <1>9 DEF CastEnds, CastAudit
  <2>2. loaded'[w] = 0 /\ serving[w] # NULL /\ OthersRun(w)
    BY <1>1, <1>d, <1>f, <2>1 DEF Return, TypeOK, OthersRun
  <2>3. QED
    BY <1>b, <1>d, <2>1, <2>2
<1>10. CASE RouteAborts(w)
  <2>1. /\ serving[w] # NULL /\ UNCHANGED <<vouchers, votes>> /\ Answer(w, FALSE) /\ OthersRun(w)
    BY <1>1, <1>10 DEF RouteAborts, Abort, Return, vars, TypeOK, OthersRun
  <2>2. loaded'[w] = 0 /\ \A v \in Workers : v # w => loaded'[v] = loaded[v]
    <3>1. IF loaded[w] = 0 THEN UNCHANGED desk ELSE Desk!Refuse(w)
      BY <1>10 DEF RouteAborts
    <3>2. QED
      BY <1>d, <1>e, <3>1
  <2>3. QED
    BY <1>b, <2>1, <2>2
<1>11. QED
  BY <1>3, <1>4, <1>5, <1>6, <1>7, <1>8, <1>9, <1>10 DEF RouteStep

LEMMA VouchInvariant == FlowSpec => []VouchInv
<1>1. FlowInit => VouchInv
  BY FlowAssumption
  DEF FlowInit, Init, Desk!Init, VouchInv, Vouching, LoadsOwn, HasTicket, TicketsDiffer, InCast
<1>2. FlowGood /\ VouchInv /\ [FlowNext]_fvars => VouchInv'
  <2> SUFFICES ASSUME FlowGood, VouchInv, [FlowNext]_fvars PROVE VouchInv'
    OBVIOUS
  <2>1. CASE Outside \/ UNCHANGED fvars
    <3>1. UNCHANGED <<votes, pc, serving, loaded, vouchers, desk>>
      BY <2>1 DEF Outside, UpdateTopicStatus, ToggleUser, Tick, fvars, vars, flow, desk
    <3>2. \A w \in Workers : Kept(w)
      BY <3>1 DEF Kept
    <3>3. QED
      BY <3>1, <3>2, VouchQuiet DEF FlowGood, DeskMoves
  <2>2. QED
    BY <2>1, WizardVouched, RouteVouched DEF FlowNext
<1>3. QED
  BY <1>1, <1>2, FlowInvariant, PTL DEF FlowSpec, fvars

\* FlowTypeOK, for every set of residents, sessions, workers, topics and options.
THEOREM FlowTyping == FlowSpec => []FlowTypeOK
<1>1. FlowGood /\ VouchInv => FlowTypeOK
  BY DEF FlowGood, Good, VouchInv, FlowTypeOK, ServingTyped, WizardTyped, PickedTyped
<1>2. QED
  BY <1>1, FlowInvariant, VouchInvariant, PTL

-----------------------------------------------------------------------------
(* Votes and passwords *)

\* What is proved of the desk by itself holds of the desk of the flow.
LEMMA DeskTakesOnce == FlowSpec => []DeskProofs!TakenOnce
<1>1. Desk!Init <=> DeskProofs!Init
  BY DEF Desk!Init, DeskProofs!Init
<1>2. [Desk!Next]_<<rows, loaded, accepts>> <=> [DeskProofs!Next]_<<rows, loaded, accepts>>
  BY DEF Desk!Next, Desk!Issue, Desk!Revoke, Desk!Load, Desk!Accept, Desk!Exhaust, Desk!Refuse,
         Desk!Revoked, Desk!Spent, Desk!Dead,
         DeskProofs!Next, DeskProofs!Issue, DeskProofs!Revoke, DeskProofs!Load, DeskProofs!Accept,
         DeskProofs!Exhaust, DeskProofs!Refuse, DeskProofs!Revoked, DeskProofs!Spent,
         DeskProofs!Dead
<1>3. Desk!Spec => DeskProofs!Spec
  BY <1>1, <1>2, PTL DEF Desk!Spec, DeskProofs!Spec
<1>4. QED
  BY <1>3, DeskUnderneath, DeskProofs!TakenOnceEach, PTL

\* However many workers there are, none lets two votes through on one OTP.
THEOREM VotesPerOtp == FlowSpec => []OtpServesOncePerWorker
<1>1. Vouching /\ DeskProofs!TakenOnce => OtpServesOncePerWorker
  BY DEF Vouching, DeskProofs!TakenOnce, OtpServesOncePerWorker
<1>2. VouchInv => Vouching
  BY DEF VouchInv
<1>3. QED
  BY <1>1, <1>2, VouchInvariant, DeskTakesOnce, PTL

\* VotesVouched: behind each vote stands an acceptance of an OTP of its voter, behind two
\* votes two acceptances, and these through different workers where the OTP is one,
\* however many workers and sessions there are.
THEOREM Vouched == FlowSpec => []VotesVouched
<1>1. VouchInv /\ OtpServesOncePerWorker => VotesVouched
  BY DEF VouchInv, VotesVouched
<1>2. QED
  BY <1>1, VouchInvariant, VotesPerOtp, PTL

\* The votes that an OTP let through.
VotesOn(log) == {i \in DOMAIN vouchers : accepts[vouchers[i]].log = log}

VotesWithinWorkers ==
    \A log \in DOMAIN rows : Cardinality(VotesOn(log)) <= Cardinality(Workers)

\* An OTP lets through at most as many votes as there are workers.
THEOREM AtMostOneEach ==
  ASSUME IsFiniteSet(Workers)
  PROVE  FlowSpec => []VotesWithinWorkers
<1>1. FlowGood /\ VotesVouched => VotesWithinWorkers
  <2> SUFFICES ASSUME FlowGood, VotesVouched, NEW log \in DOMAIN rows
               PROVE  Cardinality(VotesOn(log)) <= Cardinality(Workers)
    BY DEF VotesWithinWorkers
  <2> DEFINE f == [i \in VotesOn(log) |-> accepts[vouchers[i]].worker]
             Taken == [worker : Workers, log : Nat]
  <2>1. \A i \in VotesOn(log) : vouchers[i] \in DOMAIN accepts
    BY DEF VotesOn, VotesVouched, Vouching
  <2>2. accepts \in Seq(Taken)
    BY DEF FlowGood, Desk!TypeOK
  <2> HIDE DEF Taken
  <2>3. \A k \in DOMAIN accepts : accepts[k] \in Taken
    BY <2>2
  <2>4. \A k \in DOMAIN accepts : accepts[k].worker \in Workers
    BY <2>3 DEF Taken
  <2>5. f \in [VotesOn(log) -> Workers]
    BY <2>1, <2>4
  <2>6. \A i, j \in VotesOn(log) : f[i] = f[j] => i = j
    BY DEF VotesOn, VotesVouched, OtpServesOncePerWorker
  <2>7. f \in Injection(VotesOn(log), Workers)
    <3> HIDE DEF f
    <3>1. QED
      BY <2>5, <2>6 DEF Injection, IsInjective
  <2>8. QED
    <3> HIDE DEF f
    <3>1. QED
      BY <2>7, FS_Injection
<1>2. QED
  BY <1>1, FlowInvariant, Vouched, PTL

\* Where a single worker runs, an OTP serves one vote.
THEOREM SingleWorkerOtp ==
  ASSUME NEW w \in Workers, Workers = {w}
  PROVE  FlowSpec =>
            [](\A i, j \in DOMAIN vouchers :
                  accepts[vouchers[i]].log = accepts[vouchers[j]].log => i = j)
<1>1. FlowGood /\ VotesVouched =>
         \A i, j \in DOMAIN vouchers :
            accepts[vouchers[i]].log = accepts[vouchers[j]].log => i = j
  <2> SUFFICES ASSUME FlowGood, VotesVouched,
                      NEW i \in DOMAIN vouchers, NEW j \in DOMAIN vouchers,
                      accepts[vouchers[i]].log = accepts[vouchers[j]].log
               PROVE  i = j
    OBVIOUS
  <2> DEFINE Taken == [worker : Workers, log : Nat]
  <2>1. accepts \in Seq(Taken) /\ vouchers[i] \in DOMAIN accepts /\ vouchers[j] \in DOMAIN accepts
    BY DEF FlowGood, Desk!TypeOK, VotesVouched, Vouching
  <2> HIDE DEF Taken
  <2>2. accepts[vouchers[i]] \in Taken /\ accepts[vouchers[j]] \in Taken
    BY <2>1
  <2>3. accepts[vouchers[i]].worker = w /\ accepts[vouchers[j]].worker = w
    BY <2>2 DEF Taken
  <2>4. QED
    BY <2>3 DEF VotesVouched, OtpServesOncePerWorker
<1>2. QED
  BY <1>1, FlowInvariant, Vouched, PTL

-----------------------------------------------------------------------------
(* What the flow takes over from the service *)

\* Behind the wizard too, nobody's vote counts twice on a topic, ...
THEOREM FlowNoDouble == FlowSpec => []NoDoubleVote
BY Underneath, NoDouble, PTL

\* ... and the whole of it, routes, OTPs and sessions, implements the ballot box.
THEOREM FlowImplements == FlowSpec => ImplementsBallotBox
BY Underneath, Implements, PTL
=============================================================================
