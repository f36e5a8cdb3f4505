------------------------------ MODULE AccountFlow ------------------------------
(***************************************************************************)
(* From registration to a usable token: the routes /auth/register,         *)
(* /auth/register/verify-otp, /auth/resend-otp, /auth/login and            *)
(* /admin/users/*, the OTP desk and Residents, with the registration       *)
(* wizard and the administrator's page that call them.                     *)
(*                                                                         *)
(* The wizard holds a phone, the page and the tokens hold user ids.  They  *)
(* outlive the request they came from, while rows are deleted and ids      *)
(* given again.                                                            *)
(***************************************************************************)
EXTENDS Residents, Sequences

CONSTANT MaxRows    \* bound: OTPs issued

VARIABLES
    rows, loaded, accepts,  \* the OTP desk, for the purpose registration
    serving,    \* per worker: the route it runs, and how far
    otp_step,   \* the phones whose wizard asks for the code (reg_step = "otp")
    page,       \* the pending registrations on an administrator's screen
    tokens,     \* the tokens given out, for the account as it was
    reviewed,   \* history: the registrations an administrator approved, as shown
    born        \* history: how many acceptances there were when the row was inserted

desk == <<rows, loaded, accepts>>
flow == <<serving, otp_step, page, tokens, reviewed, born>>

Desk == INSTANCE OtpDesk WITH Keys <- Phones

Account == [id : Ids, phone : Phones, apartment : Apartments]

AccountOf(i) == [id |-> i, phone |-> users[i].phone, apartment |-> users[i].apartment]

Serving == [kind : {"register", "verify"}, phone : Phones, stage : {"account", "otp"}]

RoutesTypeOK ==
    /\ Desk!TypeOK
    /\ serving \in [Workers -> Serving \cup {NULL}]
    /\ otp_step \subseteq Phones
    /\ page \cup tokens \cup reviewed \subseteq Account
    /\ born \in [Ids -> Nat]

\* The type invariant: the tables and handlers underneath, routes, pages and tokens.
FlowTypeOK == TypeOK /\ RoutesTypeOK

FlowInit ==
    /\ Init
    /\ Desk!Init
    /\ serving = [w \in Workers |-> NULL]
    /\ otp_step = {}
    /\ page = {}
    /\ tokens = {}
    /\ reviewed = {}
    /\ born = [i \in Ids |-> 0]

Idle(w) == serving[w] = NULL /\ pc[w] = "idle"

Serves(w, kind, stage) ==
    serving[w] # NULL /\ serving[w].kind = kind /\ serving[w].stage = stage

Serve(w, kind, phone, stage) ==
    serving' = [serving EXCEPT ![w] = [kind |-> kind, phone |-> phone, stage |-> stage]]

Stage(w, stage) == serving' = [serving EXCEPT ![w] = [serving[w] EXCEPT !.stage = stage]]

Done(w) == serving' = [serving EXCEPT ![w] = NULL]

\* The wizard moves when the answer comes, unless nobody waits any more: the client timed
\* out, or a click restarted the script.
WizardMoves(next) == otp_step' \in {otp_step, next}

-----------------------------------------------------------------------------
(* Registration *)

Register(w, p, a) ==
    /\ Idle(w)
    /\ RegisterSelect(w, p, a)
    /\ Serve(w, "register", p, "account")
    /\ UNCHANGED <<desk, otp_step, page, tokens, reviewed, born>>

\* The step register_user is about to take commits the row.
Commits(w) ==
    LET p == req[w].phone  a == req[w].apartment
        remaining == [users EXCEPT ![req[w].id] = NULL] IN
    \/ pc[w] = "create" /\ apartments[a] = NULL /\ PhoneUnique(users, p) /\ max_allowed_voters > 0
    \/ pc[w] = "insert" /\ PhoneUnique(users, p)
    \/ pc[w] = "restart" /\ PhoneUnique(remaining, p) /\ Admits(remaining, a)

\* register_user goes on, until it commits or refuses.
RegisterGoes(w) ==
    /\ Serves(w, "register", "account")
    /\ \/ RegisterApartment(w)
       \/ RegisterCreate(w)
       \/ RegisterCount(w)
       \/ RegisterInsert(w)
       \/ RegisterRestart(w)
    /\ \/ pc'[w] # "idle" /\ UNCHANGED <<serving, born>>
       \/ /\ pc'[w] = "idle" /\ Commits(w)
          /\ Stage(w, "otp")
          /\ born' = [i \in Ids |-> IF HasPhone(users', i, req[w].phone) THEN Len(accepts)
                                                                         ELSE born[i]]
       \/ pc'[w] = "idle" /\ ~Commits(w) /\ Done(w) /\ UNCHANGED born
    /\ UNCHANGED <<desk, otp_step, page, tokens, reviewed>>

\* Variant: the wizard moves on without the phone.
RegisterOtpForgets(w) ==
    LET p == serving[w].phone IN
    /\ Serves(w, "register", "otp")
    /\ \/ /\ Len(rows) < MaxRows
          /\ Desk!Issue(p)
          /\ WizardMoves(otp_step \cup {NULL})
       \/ UNCHANGED <<desk, otp_step>>
    /\ Done(w)
    /\ UNCHANGED <<vars, page, tokens, reviewed, born>>

\* The OTP, whose success moves the wizard on, or a 429; the account is committed.
RegisterOtp(w) ==
    LET p == serving[w].phone IN
    /\ Serves(w, "register", "otp")
    /\ \/ /\ Len(rows) < MaxRows
          /\ Desk!Issue(p)
          /\ WizardMoves(otp_step \cup {p})
       \/ UNCHANGED <<desk, otp_step>>
    /\ Done(w)
    /\ UNCHANGED <<vars, page, tokens, reviewed, born>>

ResendOtp(w, p) ==
    /\ Idle(w)
    /\ p \in otp_step
    /\ Len(rows) < MaxRows
    /\ Desk!Issue(p)
    /\ UNCHANGED <<vars, flow>>

ReEnterDetails(p) ==
    /\ p \in otp_step
    /\ otp_step' = otp_step \ {p}
    /\ UNCHANGED <<vars, desk, serving, page, tokens, reviewed, born>>

-----------------------------------------------------------------------------
(* Verification *)

Verify(w, p) ==
    /\ Idle(w)
    /\ p \in otp_step
    /\ Desk!Load(w, p)
    /\ Serve(w, "verify", p, "otp")
    /\ UNCHANGED <<vars, otp_step, page, tokens, reviewed, born>>

\* Variant: the refusal of the OTP is not looked at.
VerdictIgnored(w) ==
    /\ Serves(w, "verify", "otp")
    /\ \/ (Desk!Accept(w) \/ Desk!Refuse(w)) /\ Stage(w, "account")
       \/ Desk!Exhaust(w) /\ Done(w)
    /\ UNCHANGED <<vars, otp_step, page, tokens, reviewed, born>>

Verdict(w) ==
    /\ Serves(w, "verify", "otp")
    /\ \/ Desk!Accept(w) /\ Stage(w, "account")
       \/ (Desk!Exhaust(w) \/ Desk!Refuse(w)) /\ Done(w)
    /\ UNCHANGED <<vars, otp_step, page, tokens, reviewed, born>>

ConfirmBegins(w) ==
    LET p == serving[w].phone IN
    /\ Serves(w, "verify", "account") /\ pc[w] = "idle"
    /\ \/ ConfirmSelect(w, p) /\ UNCHANGED serving
       \/ /\ \A i \in Ids : HasPhone(users, i, p) => users[i].status # "pending_otp"
          /\ Done(w)
          /\ UNCHANGED vars
    /\ UNCHANGED <<desk, otp_step, page, tokens, reviewed, born>>

ConfirmEnds(w) ==
    LET succeeds == users[req[w].id] # NULL IN
    /\ Serves(w, "verify", "account")
    /\ ConfirmCommit(w)
    /\ WizardMoves(IF succeeds THEN otp_step \ {serving[w].phone} ELSE otp_step)
    /\ Done(w)
    /\ UNCHANGED <<desk, page, tokens, reviewed, born>>

-----------------------------------------------------------------------------
(* Administrators, log-in *)

\* GET /admin/users/pending, shown.
ListPending(w) ==
    /\ Idle(w)
    /\ page' = {AccountOf(i) : i \in {j \in Ids : users[j] # NULL
                                                  /\ users[j].status = "pending_approval"}}
    /\ UNCHANGED <<vars, desk, serving, otp_step, tokens, reviewed, born>>

\* A click on a registration shown, which may be an old picture; the id is sent.
Approve(w, shown) ==
    /\ Idle(w)
    /\ shown \in page
    /\ ApproveSelect(w, shown.id)
    /\ reviewed' = reviewed \cup {shown}
    /\ UNCHANGED <<desk, serving, otp_step, page, tokens, born>>

Reject(w, shown) ==
    /\ Idle(w)
    /\ shown \in page
    /\ RejectUser(w, shown.id)
    /\ UNCHANGED <<desk, flow>>

Toggle(w, i, active) ==
    /\ Idle(w)
    /\ ToggleSelect(w, i, active)
    /\ UNCHANGED <<desk, flow>>

AdminEnds(w) ==
    /\ ApproveCommit(w) \/ ToggleCommit(w)
    /\ UNCHANGED <<desk, flow>>

AdminApartment(w, a) ==
    /\ Idle(w)
    /\ \/ \E limit \in VoterLimits : CreateApartment(w, a, limit)
       \/ \E limit \in VoterLimits, is_active \in BOOLEAN : UpdateApartment(w, a, limit, is_active)
    /\ UNCHANGED <<desk, flow>>

\* Variant: the stored hash is compared even when there is none.
MayLogInWithout(i) == users[i] # NULL /\ users[i].is_active /\ users[i].status = "approved"

\* Active, approved, and with a password, which the resident knows.
MayLogIn(i) ==
    /\ users[i] # NULL
    /\ users[i].is_active
    /\ users[i].status = "approved"
    /\ users[i].password_hash # NULL

\* The token holds the id; later requests look the account up by it.
Login(w, i) ==
    /\ Idle(w)
    /\ MayLogIn(i)
    /\ tokens' = tokens \cup {AccountOf(i)}
    /\ UNCHANGED <<vars, desk, serving, otp_step, page, reviewed, born>>

\* The handler or its worker dies.
RouteAborts(w) ==
    /\ ~Idle(w)
    /\ IF pc[w] = "idle" THEN UNCHANGED vars ELSE Abort(w)
    /\ IF loaded[w] = 0 THEN UNCHANGED desk ELSE Desk!Refuse(w)
    /\ Done(w)
    /\ UNCHANGED <<otp_step, page, tokens, reviewed, born>>

RouteStep(w) ==
    \/ \E p \in Phones, a \in Apartments : Register(w, p, a)
    \/ RegisterGoes(w)
    \/ RegisterOtp(w)
    \/ \E p \in Phones : ResendOtp(w, p) \/ Verify(w, p)
    \/ Verdict(w)
    \/ ConfirmBegins(w)
    \/ ConfirmEnds(w)
    \/ ListPending(w)
    \/ \E shown \in page : Approve(w, shown) \/ Reject(w, shown)
    \/ \E i \in Ids, active \in BOOLEAN : Toggle(w, i, active)
    \/ AdminEnds(w)
    \/ \E a \in Apartments : AdminApartment(w, a)
    \/ \E i \in Ids : Login(w, i)
    \/ RouteAborts(w)

FlowNext ==
    \/ \E w \in Workers : RouteStep(w)
    \/ \E p \in Phones : ReEnterDetails(p)

FlowSpec == FlowInit /\ [][FlowNext]_<<vars, desk, flow>>

-----------------------------------------------------------------------------
(* Properties of a deployment with one worker *)

\* An id on an administrator's screen or in a token goes on to mean the registration it
\* was shown or given for: nobody is approved, rejected or let in in another's place
\* (admin_panel.py:98-113, auth_service.py:40-47, 83-86, 257-269).
HeldIdsKeepMeaning ==
    \A held \in page \cup tokens : users[held.id] # NULL /\ AccountOf(held.id) = held

\* Whoever got a token took an OTP of that phone after the registration was made, and an
\* administrator approved that registration as it was shown; whatever was restarted, given
\* up, disabled or enabled meanwhile (README.md:137-143, routes/auth.py:73-86).
ActsOnlyAsApproved ==
    \A held \in tokens :
        /\ held \in reviewed
        /\ \E k \in DOMAIN accepts :
              k > born[held.id] /\ rows[accepts[k].log].key = held.phone

\* A wizard that asks for the code of a phone asks in vain for no account: the
\* registration is there, and an OTP was issued for it, even after another attempt was
\* refused by a full apartment or by the rate limit (register.py:49-51, routes/auth.py:52-59).
WizardHasAccount ==
    \A p \in otp_step :
        /\ \E i \in Ids : HasPhone(users, i, p)
        /\ \E k \in DOMAIN rows : rows[k].key = p
=============================================================================
