--------------------------- MODULE AccountFlowProofs ---------------------------
(* Theorems about AccountFlow: for any number of workers, that its two parts do *)
(* what they promise and that a wizard waiting for a code has an account; for   *)
(* one worker, that ids keep their meaning and that a token was earned.         *)
EXTENDS AccountFlow, ResidentsProofs

avars == <<vars, desk, flow>>

DeskProofs == INSTANCE OtpDeskProofs WITH Keys <- Phones

-----------------------------------------------------------------------------
(* The parts *)

\* The desk keeps its types, the keys of its rows and the acceptances it has recorded.
LEMMA DeskKeeps ==
  ASSUME Desk!TypeOK, Desk!Next \/ UNCHANGED desk
  PROVE  /\ Desk!TypeOK'
         /\ \A i \in DOMAIN rows : i \in DOMAIN rows' /\ rows'[i].key = rows[i].key
         /\ \A k \in DOMAIN accepts : k \in DOMAIN accepts' /\ accepts'[k] = accepts[k]
<1>1. (Desk!TypeOK <=> DeskProofs!TypeOK) /\ (Desk!TypeOK' <=> DeskProofs!TypeOK')
  BY DEF Desk!TypeOK, DeskProofs!TypeOK, Desk!Row, DeskProofs!Row
<1>2. Desk!Next <=> DeskProofs!Next
  BY DEF Desk!Next, Desk!Issue, Desk!Revoke, Desk!Load, Desk!Accept, Desk!Exhaust, Desk!Refuse,
         Desk!Revoked, Desk!Spent, Desk!Dead,
         DeskProofs!Next, DeskProofs!Issue, DeskProofs!Revoke, DeskProofs!Load, DeskProofs!Accept,
         DeskProofs!Exhaust, DeskProofs!Refuse, DeskProofs!Revoked, DeskProofs!Spent, DeskProofs!Dead
<1>3. DeskProofs!Next \/ UNCHANGED DeskProofs!dvars
  BY <1>2 DEF desk, DeskProofs!dvars
<1>4. QED
  BY <1>1, <1>3, DeskProofs!Keeps

\* A route that runs, and a registration held, have the phone of a resident.
LEMMA Held ==
  ASSUME RoutesTypeOK
  PROVE  /\ \A w \in Workers : serving[w] # NULL =>
               serving[w] \in Serving /\ serving[w].phone \in Phones
         /\ \A held \in page \cup tokens \cup reviewed : held.id \in Ids /\ held.phone \in Phones
BY DEF RoutesTypeOK, Serving, Account

\* A step of the flow is a step of the desk, or leaves it alone.
LEMMA DeskSteps ==
  ASSUME RoutesTypeOK, [FlowNext]_avars
  PROVE  Desk!Next \/ UNCHANGED desk
<1> USE DEF desk
<1>1. ASSUME NEW w \in Workers, RegisterOtp(w) PROVE Desk!Next \/ UNCHANGED desk
  <2>1. PICK p \in Phones : p = serving[w].phone
    BY <1>1, Held DEF RegisterOtp, Serves
  <2>2. Desk!Issue(p) \/ UNCHANGED desk
    BY <1>1, <2>1 DEF RegisterOtp
  <2>3. QED
    BY <2>2 DEF Desk!Next
<1>2. ASSUME NEW w \in Workers, NEW p \in Phones, ResendOtp(w, p) \/ Verify(w, p)
      PROVE  Desk!Next
  BY <1>2 DEF ResendOtp, Verify, Desk!Next
<1>3. ASSUME NEW w \in Workers, Verdict(w) \/ RouteAborts(w) PROVE Desk!Next \/ UNCHANGED desk
  BY <1>3 DEF Verdict, RouteAborts, Desk!Next
<1>4. ASSUME NEW w \in Workers,
             \/ \E p \in Phones, a \in Apartments : Register(w, p, a)
             \/ RegisterGoes(w) \/ ConfirmBegins(w) \/ ConfirmEnds(w)
             \/ ListPending(w) \/ AdminEnds(w)
             \/ \E shown \in page : Approve(w, shown) \/ Reject(w, shown)
             \/ \E i \in Ids, active \in BOOLEAN : Toggle(w, i, active)
             \/ \E a \in Apartments : AdminApartment(w, a)
             \/ \E i \in Ids : Login(w, i)
      PROVE  UNCHANGED desk
  BY <1>4 DEF Register, RegisterGoes, ConfirmBegins, ConfirmEnds, ListPending, AdminEnds, Approve,
              Reject, Toggle, AdminApartment, Login
<1>5. CASE (\E p \in Phones : ReEnterDetails(p)) \/ UNCHANGED avars
  BY <1>5 DEF ReEnterDetails, avars
<1>6. QED
  BY <1>1, <1>2, <1>3, <1>4, <1>5 DEF FlowNext, RouteStep

\* A step of the flow is a step of Residents, or leaves the accounts alone.
LEMMA ResidentSteps ==
  ASSUME RoutesTypeOK, [FlowNext]_avars
  PROVE  [Next]_vars
<1>1. ASSUME NEW w \in Workers, ConfirmBegins(w) PROVE [Next]_vars
  <2>1. PICK p \in Phones : p = serving[w].phone
    BY <1>1, Held DEF ConfirmBegins, Serves
  <2>2. ConfirmSelect(w, p) \/ UNCHANGED vars
    BY <1>1, <2>1 DEF ConfirmBegins
  <2>3. QED
    BY <2>2 DEF Next
<1>2. ASSUME NEW w \in Workers, NEW shown \in page, Approve(w, shown) \/ Reject(w, shown) PROVE Next
  <2>1. PICK i \in Ids : i = shown.id
    BY Held
  <2>2. ApproveSelect(w, i) \/ RejectUser(w, i)
    BY <1>2, <2>1 DEF Approve, Reject
  <2>3. QED
    BY <2>2 DEF Next
<1>3. ASSUME NEW w \in Workers,
             \/ \E p \in Phones, a \in Apartments : Register(w, p, a)
             \/ RegisterGoes(w) \/ ConfirmEnds(w) \/ AdminEnds(w)
             \/ \E i \in Ids, active \in BOOLEAN : Toggle(w, i, active)
      PROVE  Next
  BY <1>3 DEF Register, RegisterGoes, ConfirmEnds, AdminEnds, Toggle, Next
<1>4. ASSUME NEW w \in Workers, NEW a \in Apartments, AdminApartment(w, a) PROVE Next
  BY <1>4 DEF AdminApartment, Next
<1>5. ASSUME NEW w \in Workers, RouteAborts(w) PROVE [Next]_vars
  BY <1>5 DEF RouteAborts, Next
<1>6. ASSUME NEW w \in Workers,
             \/ RegisterOtp(w) \/ Verdict(w) \/ ListPending(w)
             \/ \E p \in Phones : ResendOtp(w, p) \/ Verify(w, p)
             \/ \E i \in Ids : Login(w, i)
      PROVE  UNCHANGED vars
  BY <1>6 DEF RegisterOtp, Verdict, ListPending, ResendOtp, Verify, Login
<1>7. CASE (\E p \in Phones : ReEnterDetails(p)) \/ UNCHANGED avars
  BY <1>7 DEF ReEnterDetails, avars
<1>8. QED
  BY <1>1, <1>2, <1>3, <1>4, <1>5, <1>6, <1>7 DEF FlowNext, RouteStep

-----------------------------------------------------------------------------
(* Types *)

LEMMA AccountTypes ==
  ASSUME TypeOK, NEW i \in Ids, users[i] # NULL
  PROVE  AccountOf(i) \in Account
<1>1. users[i] \in User
  BY DEF TypeOK
<1>2. users[i].phone \in Phones /\ users[i].apartment \in Apartments
  BY <1>1 DEF User
<1>3. QED
  BY <1>2 DEF AccountOf, Account

LEMMA FlowTypingStep ==
  ASSUME TypeOK, RoutesTypeOK, [FlowNext]_avars
  PROVE  RoutesTypeOK'
<1>1. Desk!TypeOK'
  BY DeskSteps, DeskKeeps DEF RoutesTypeOK
<1>2. serving' \in [Workers -> Serving \cup {NULL}]
  <2>1. ASSUME NEW w \in Workers,
               \/ \E p \in Phones, a \in Apartments : Register(w, p, a)
               \/ \E p \in Phones : Verify(w, p)
        PROVE  serving' \in [Workers -> Serving \cup {NULL}]
    <3>1. PICK p \in Phones, kind \in {"register", "verify"}, stage \in {"account", "otp"} :
             Serve(w, kind, p, stage)
      BY <2>1 DEF Register, Verify
    <3>2. [kind |-> kind, phone |-> p, stage |-> stage] \in Serving
      BY DEF Serving
    <3>3. QED
      BY <3>1, <3>2 DEF Serve, RoutesTypeOK
  <2>2. ASSUME NEW w \in Workers, serving[w] # NULL,
               Stage(w, "account") \/ Stage(w, "otp") \/ Done(w) \/ UNCHANGED serving
        PROVE  serving' \in [Workers -> Serving \cup {NULL}]
    <3>1. serving[w] \in Serving
      BY <2>2, Held
    <3>2. /\ [serving[w] EXCEPT !.stage = "account"] \in Serving
          /\ [serving[w] EXCEPT !.stage = "otp"] \in Serving
      BY <3>1 DEF Serving
    <3>3. QED
      BY <2>2, <3>2 DEF Stage, Done, RoutesTypeOK
  <2>3. ASSUME NEW w \in Workers, RegisterGoes(w) \/ RegisterOtp(w) \/ Verdict(w)
                                  \/ ConfirmBegins(w) \/ ConfirmEnds(w)
        PROVE  serving' \in [Workers -> Serving \cup {NULL}]
    BY <2>2, <2>3 DEF RegisterGoes, RegisterOtp, Verdict, ConfirmBegins, ConfirmEnds, Serves
  <2>4. ASSUME NEW w \in Workers, RouteAborts(w)
        PROVE  serving' \in [Workers -> Serving \cup {NULL}]
    BY <2>4 DEF RouteAborts, Done, RoutesTypeOK
  <2>5. CASE UNCHANGED serving
    BY <2>5 DEF RoutesTypeOK
  <2>6. QED
    BY <2>1, <2>3, <2>4, <2>5 DEF FlowNext, RouteStep, ResendOtp, ListPending, Approve, Reject, Toggle,
       AdminEnds, AdminApartment, Login, ReEnterDetails, avars, flow
<1>3. otp_step' \subseteq Phones
  <2>1. ASSUME NEW w \in Workers, RegisterOtp(w) PROVE otp_step' \subseteq Phones
    BY <2>1, Held DEF RegisterOtp, Serves, WizardMoves, RoutesTypeOK
  <2>2. ASSUME NEW w \in Workers, ConfirmEnds(w) PROVE otp_step' \subseteq Phones
    BY <2>2 DEF ConfirmEnds, WizardMoves, RoutesTypeOK
  <2>3. ASSUME NEW p \in Phones, ReEnterDetails(p) PROVE otp_step' \subseteq Phones
    BY <2>3 DEF ReEnterDetails, RoutesTypeOK
  <2>4. CASE UNCHANGED otp_step
    BY <2>4 DEF RoutesTypeOK
  <2>5. QED
    BY <2>1, <2>2, <2>3, <2>4 DEF FlowNext, RouteStep, Register, RegisterGoes, ResendOtp, Verify, Verdict,
       ConfirmBegins, ListPending, Approve, Reject, Toggle, AdminEnds, AdminApartment, Login,
       RouteAborts, avars, flow
<1>4. (page \cup tokens \cup reviewed \subseteq Account)'
  <2>1. ASSUME NEW w \in Workers, ListPending(w)
        PROVE  (page \cup tokens \cup reviewed \subseteq Account)'
    BY <2>1, AccountTypes DEF ListPending, RoutesTypeOK
  <2>2. ASSUME NEW w \in Workers, NEW shown \in page, Approve(w, shown)
        PROVE  (page \cup tokens \cup reviewed \subseteq Account)'
    BY <2>2 DEF Approve, RoutesTypeOK
  <2>3. ASSUME NEW w \in Workers, NEW i \in Ids, Login(w, i)
        PROVE  (page \cup tokens \cup reviewed \subseteq Account)'
    BY <2>3, AccountTypes DEF Login, MayLogIn, RoutesTypeOK
  <2>4. CASE UNCHANGED <<page, tokens, reviewed>>
    BY <2>4 DEF RoutesTypeOK
  <2>5. QED
    BY <2>1, <2>2, <2>3, <2>4 DEF FlowNext, RouteStep, Register, RegisterGoes, RegisterOtp, ResendOtp,
       Verify, Verdict, ConfirmBegins, ConfirmEnds, Reject, Toggle, AdminEnds, AdminApartment,
       RouteAborts, ReEnterDetails, avars, flow
<1>5. born' \in [Ids -> Nat]
  <2>1. ASSUME NEW w \in Workers, RegisterGoes(w) PROVE born' \in [Ids -> Nat]
    <3>1. Len(accepts) \in Nat
      BY DEF RoutesTypeOK, Desk!TypeOK
    <3>2. CASE UNCHANGED born
      BY <3>2 DEF RoutesTypeOK
    <3>3. CASE born' = [i \in Ids |-> IF HasPhone(users', i, req[w].phone) THEN Len(accepts)
                                                                         ELSE born[i]]
      BY <3>1, <3>3 DEF RoutesTypeOK
    <3>4. QED
      BY <2>1, <3>2, <3>3 DEF RegisterGoes
  <2>2. CASE UNCHANGED born
    BY <2>2 DEF RoutesTypeOK
  <2>3. QED
    BY <2>1, <2>2 DEF FlowNext, RouteStep, Register, RegisterOtp, ResendOtp, Verify, Verdict,
       ConfirmBegins, ConfirmEnds, ListPending, Approve, Reject, Toggle, AdminEnds, AdminApartment,
       Login, RouteAborts, ReEnterDetails, avars, flow
<1>6. QED
  BY <1>1, <1>2, <1>3, <1>4, <1>5 DEF RoutesTypeOK

LEMMA FlowInvariant == FlowSpec => [](TypeOK /\ RoutesTypeOK)
<1>1. FlowInit => TypeOK /\ RoutesTypeOK
  <2>1. FlowInit => RoutesTypeOK
    BY DEF FlowInit, RoutesTypeOK, Desk!Init, Desk!TypeOK
  <2>2. Init => TypeOK
    BY InitTypes
  <2>3. QED
    BY <2>1, <2>2 DEF FlowInit
<1>2. TypeOK /\ RoutesTypeOK /\ [FlowNext]_avars => (TypeOK /\ RoutesTypeOK)'
  BY FlowTypingStep, ResidentSteps, TypingStep
<1>3. QED
  BY <1>1, <1>2, PTL DEF FlowSpec, avars

\* Wizards, pages and tokens hold what they should, whatever comes late.
THEOREM FlowTyping == FlowSpec => []FlowTypeOK
BY FlowInvariant, PTL DEF FlowTypeOK

\* The desk and the routes aside, a run of the flow is a run of Residents: what is proved
\* of the accounts holds under the routes, the wizards and the page.
THEOREM Underneath == FlowSpec => Spec
<1>1. FlowInit => Init
  BY DEF FlowInit
<1>2. RoutesTypeOK /\ [FlowNext]_avars => [Next]_vars
  BY ResidentSteps
<1>3. QED
  BY <1>1, <1>2, FlowInvariant, PTL DEF FlowSpec, Spec, avars

\* The rest aside, it is a run of the desk: the routes use it as it promises.
THEOREM DeskUnderneath == FlowSpec => Desk!Spec
<1>1. FlowInit => Desk!Init
  BY DEF FlowInit
<1>2. RoutesTypeOK /\ [FlowNext]_avars => [Desk!Next]_<<rows, loaded, accepts>>
  BY DeskSteps DEF desk
<1>3. QED
  BY <1>1, <1>2, FlowInvariant, PTL DEF FlowSpec, Desk!Spec, avars

-----------------------------------------------------------------------------
(* An account behind the wizard *)

HasAccount(p) == \E i \in Ids : HasPhone(users, i, p)
Issued(p) == \E k \in DOMAIN rows : rows[k].key = p

\* However workers interleave, a phone with an account keeps one: a restart deletes the
\* row of its own phone only, and inserts another in the same transaction.
LEMMA AccountsStay ==
  ASSUME TypeOK, IdInv, [Next]_vars, NEW p \in Phones, HasAccount(p)
  PROVE  HasAccount(p)'
<1>1. PICK i \in Ids : users[i] # NULL /\ users[i].phone = p
  BY DEF HasAccount, HasPhone
<1>s. ASSUME users'[i] # NULL, users'[i].phone = p PROVE HasAccount(p)'
  BY <1>s DEF HasAccount, HasPhone
<1>2. CASE users' = users
  BY <1>1, <1>2, <1>s
<1>3. ASSUME NEW j \in Ids, Edits(j) PROVE HasAccount(p)'
  <2>1. PICK u \in User : u.phone = users[j].phone /\ users' = [users EXCEPT ![j] = u]
    BY <1>3 DEF Edits
  <2>2. users'[i] # NULL /\ users'[i].phone = p
    BY <1>1, <2>1, ResidentsAssumption DEF TypeOK
  <2>3. QED
    BY <1>s, <2>2
<1>4. ASSUME NEW table \in [Ids -> User \cup {NULL}], table[i] = users[i],
             NEW n \in Ids, NEW q, Inserts(table, n, q)
      PROVE  HasAccount(p)'
  <2>1. i < n /\ \E a \in Apartments : users' = [table EXCEPT ![n] = NewUser(q, a)]
    BY <1>1, <1>4 DEF Inserts, NextId
  <2>2. users'[i] = users[i]
    BY <1>4, <2>1 DEF Ids
  <2>3. QED
    BY <1>1, <1>s, <2>2
<1>5. ASSUME NEW w \in Workers, NEW n \in Ids, pc[w] = "restart",
             Inserts(RestartRows(w), n, req[w].phone)
      PROVE  HasAccount(p)'
  <2>1. RestartRows(w) \in [Ids -> User \cup {NULL}]
    BY DEF RestartRows, TypeOK
  <2>2. CASE req[w].id = i
    <3>1. req[w].phone = p
      BY <1>1, <1>5, <2>2 DEF IdInv, IdKeepsPhone, RestartsOwn
    <3>2. PICK a \in Apartments : users' = [RestartRows(w) EXCEPT ![n] = NewUser(p, a)]
      BY <1>5, <3>1 DEF Inserts
    <3>3. users'[n] = NewUser(p, a)
      BY <2>1, <3>2
    <3>4. users'[n] # NULL /\ users'[n].phone = p
      BY <3>3, RowTypes, ResidentsAssumption
    <3>5. QED
      BY <3>4 DEF HasAccount, HasPhone
  <2>3. CASE req[w].id # i
    <3>1. RestartRows(w)[i] = users[i]
      BY <2>3 DEF RestartRows, TypeOK
    <3>2. QED
      BY <1>4, <1>5, <2>1, <3>1
  <2>4. QED
    BY <2>2, <2>3
<1>6. QED
  BY <1>2, <1>3, <1>4, <1>5, UserSteps DEF TypeOK

\* A commit of register_user leaves a row of the phone, unverified.
LEMMA CommitInserts ==
  ASSUME TypeOK, NEW w \in Workers, RegisterGoes(w), Commits(w)
  PROVE  \E n \in Ids : HasPhone(users', n, req[w].phone) /\ n \notin verified'
<1>1. /\ req[w].phone \in Phones /\ req[w].apartment \in Apartments
      /\ pc[w] = "restart" => req[w].id \in Ids
  BY DEF Commits, TypeOK, Registering, HoldsId
<1>2. PICK table \in [Ids -> User \cup {NULL}], gone \in SUBSET Ids :
         Insert(table, gone, req[w].phone, req[w].apartment)
  <2>1. CASE pc[w] = "create"
    <3>1. Insert(users, {}, req[w].phone, req[w].apartment)
      BY <2>1 DEF Commits, RegisterGoes, RegisterApartment, RegisterCreate, RegisterCount,
                  RegisterInsert, RegisterRestart
    <3>2. QED
      BY <3>1 DEF TypeOK
  <2>2. CASE pc[w] = "insert"
    <3>1. Insert(users, {}, req[w].phone, req[w].apartment)
      BY <2>2 DEF Commits, RegisterGoes, RegisterApartment, RegisterCreate, RegisterCount,
                  RegisterInsert, RegisterRestart
    <3>2. QED
      BY <3>1 DEF TypeOK
  <2>3. CASE pc[w] = "restart"
    <3>1. Insert(RestartRows(w), {req[w].id}, req[w].phone, req[w].apartment)
      BY <2>3 DEF Commits, RegisterGoes, RegisterApartment, RegisterCreate, RegisterCount,
                  RegisterInsert, RegisterRestart, RestartRows
    <3>2. RestartRows(w) \in [Ids -> User \cup {NULL}]
      BY DEF RestartRows, TypeOK
    <3>3. QED
      BY <1>1, <2>3, <3>1, <3>2
  <2>4. QED
    BY <2>1, <2>2, <2>3 DEF Commits
<1>3. PICK n \in Ids : /\ users' = [table EXCEPT ![n] = NewUser(req[w].phone, req[w].apartment)]
                       /\ verified' = verified \ (gone \cup {n})
  BY <1>2 DEF Insert
<1>4. users'[n] = NewUser(req[w].phone, req[w].apartment) /\ n \notin verified'
  BY <1>3
<1>5. QED
  BY <1>1, <1>4, RowTypes, ResidentsAssumption DEF HasPhone

\* A step of one worker leaves the others' handlers alone.
LEMMA OthersKeep ==
  ASSUME TypeOK, RoutesTypeOK, NEW w \in Workers, NEW v \in Workers, v # w, RouteStep(w)
  PROVE  pc'[v] = pc[v] /\ req'[v] = req[v] /\ serving'[v] = serving[v]
<1>1. serving'[v] = serving[v]
  <2>1. \/ \E kind, phone, stage : Serve(w, kind, phone, stage)
        \/ \E stage : Stage(w, stage)
        \/ Done(w)
        \/ UNCHANGED serving
    BY DEF RouteStep, Register, RegisterGoes, RegisterOtp, ResendOtp, Verify, Verdict, ConfirmBegins,
           ConfirmEnds, ListPending, Approve, Reject, Toggle, AdminEnds, AdminApartment, Login,
           RouteAborts, flow
  <2>2. QED
    BY <2>1 DEF Serve, Stage, Done, RoutesTypeOK
<1>2. \/ \E label, request : Start(w, label, request)
      \/ Return(w)
      \/ \E label : pc' = [pc EXCEPT ![w] = label] /\ UNCHANGED req
      \/ \E label, request : /\ pc' = [pc EXCEPT ![w] = label]
                             /\ req' = [req EXCEPT ![w] = request]
      \/ UNCHANGED <<pc, req>>
  <2>1. CASE \/ \E p \in Phones, a \in Apartments : Register(w, p, a)
             \/ RegisterGoes(w)
    BY <2>1 DEF Register, RegisterSelect, RegisterGoes, RegisterApartment, RegisterCreate,
                RegisterCount, RegisterInsert, RegisterRestart
  <2>2. CASE \/ RegisterOtp(w) \/ Verdict(w) \/ ListPending(w)
             \/ \E p \in Phones : ResendOtp(w, p) \/ Verify(w, p)
             \/ \E i \in Ids : Login(w, i)
    BY <2>2 DEF RegisterOtp, Verdict, ListPending, ResendOtp, Verify, Login, vars
  <2>3. CASE ConfirmBegins(w) \/ ConfirmEnds(w) \/ AdminEnds(w)
    BY <2>3 DEF ConfirmBegins, ConfirmEnds, AdminEnds, ConfirmSelect, ConfirmCommit, ApproveCommit,
                ToggleCommit, vars
  <2>4. CASE \/ \E shown \in page : Approve(w, shown) \/ Reject(w, shown)
             \/ \E i \in Ids, active \in BOOLEAN : Toggle(w, i, active)
             \/ \E a \in Apartments : AdminApartment(w, a)
    BY <2>4 DEF Approve, Reject, Toggle, AdminApartment, ApproveSelect, RejectUser, ToggleSelect,
                CreateApartment, UpdateApartment
  <2>5. CASE RouteAborts(w)
    BY <2>5 DEF RouteAborts, Abort, vars
  <2>6. QED
    BY <2>1, <2>2, <2>3, <2>4, <2>5 DEF RouteStep
<1>3. QED
  BY <1>1, <1>2 DEF Start, Return, TypeOK

\* What the route knows while it registers, and once it has.
Registers(w) ==
    /\ Serves(w, "register", "account") => pc[w] \in Registering /\ req[w].phone = serving[w].phone
    /\ Serves(w, "register", "otp") => HasAccount(serving[w].phone)

WizardInv == WizardHasAccount /\ \A w \in Workers : Registers(w)

\* The worker that moves: what it registers has an account when it goes on to the OTP.
LEMMA RegistersKeeps ==
  ASSUME TypeOK, RoutesTypeOK, IdInv, [FlowNext]_avars, NEW w \in Workers, Registers(w), RouteStep(w)
  PROVE  Registers(w)'
<1>1. \A p \in Phones : HasAccount(p) => HasAccount(p)'
  BY AccountsStay, ResidentSteps
<1>2. CASE serving'[w] = NULL
  BY <1>2 DEF Registers, Serves
<1>3. CASE serving'[w] # NULL /\ serving'[w].kind = "verify"
  BY <1>3 DEF Registers, Serves
<1>4. ASSUME NEW p \in Phones, NEW a \in Apartments, Register(w, p, a) PROVE Registers(w)'
  <2> DEFINE s == [kind |-> "register", phone |-> p, stage |-> "account"]
  <2>1. serving'[w] = s
    BY <1>4 DEF Register, Serve, RoutesTypeOK
  <2>2. pc'[w] \in {"apartment", "restart"} /\ req'[w].phone = p
    BY <1>4 DEF Register, RegisterSelect, Start, NoRequest, TypeOK
  <2>3. QED
    BY <2>1, <2>2 DEF Registers, Serves, Registering
<1>5. CASE RegisterGoes(w)
  <2>0. /\ serving[w] \in Serving /\ serving[w].kind = "register" /\ serving[w].stage = "account"
        /\ req[w].phone = serving[w].phone /\ req[w].phone \in Phones
    BY <1>5, Held DEF RegisterGoes, Serves, Registers
  <2>1. CASE pc'[w] # "idle" /\ UNCHANGED serving
    <3>1. pc'[w] \in {"create", "count", "insert"} /\ req'[w].phone = req[w].phone
      <4>1. req[w] \in Request
        BY DEF TypeOK
      <4>2. \/ pc'[w] = "create" /\ req' = req
            \/ pc'[w] = "insert" /\ req' = req
            \/ /\ pc'[w] = "count"
               /\ \E limit : req'[w] = [req[w] EXCEPT !.limit = limit]
        BY <1>5, <2>1 DEF RegisterGoes, RegisterApartment, RegisterCreate, RegisterCount,
                          RegisterInsert, RegisterRestart, Return, TypeOK
      <4>3. QED
        BY <4>1, <4>2 DEF Request
    <3>2. QED
      BY <2>0, <2>1, <3>1 DEF Registers, Serves, Registering
  <2>2. CASE Commits(w) /\ Stage(w, "otp")
    <3>1. serving'[w].phone = serving[w].phone /\ serving'[w].stage = "otp"
      BY <2>0, <2>2 DEF Stage, RoutesTypeOK, Serving
    <3>2. HasAccount(serving[w].phone)'
      <4>1. PICK n \in Ids : HasPhone(users', n, req[w].phone)
        BY <1>5, <2>2, CommitInserts
      <4>2. QED
        BY <2>0, <3>1, <4>1 DEF HasAccount
    <3>3. QED
      BY <3>1, <3>2 DEF Registers, Serves, HasAccount
  <2>3. CASE Done(w)
    BY <1>2, <2>3 DEF Done, RoutesTypeOK
  <2>4. QED
    BY <1>5, <2>1, <2>2, <2>3 DEF RegisterGoes
<1>6. CASE AdminEnds(w)
  <2>1. UNCHANGED serving /\ pc[w] \in {"approve", "toggle"}
    BY <1>6 DEF AdminEnds, ApproveCommit, ToggleCommit, flow
  <2>2. ~Serves(w, "register", "account")
    BY <2>1 DEF Registers, Registering
  <2>3. Serves(w, "register", "otp") => serving[w].phone \in Phones
    BY Held DEF Serves
  <2>4. QED
    BY <1>1, <2>1, <2>2, <2>3 DEF Registers, Serves, HasAccount
<1>7. CASE RegisterOtp(w) \/ RouteAborts(w)
  BY <1>2, <1>7 DEF RegisterOtp, RouteAborts, Done, RoutesTypeOK
<1>8. CASE \/ ListPending(w) \/ \E p \in Phones : ResendOtp(w, p)
           \/ \E shown \in page : Approve(w, shown) \/ Reject(w, shown)
           \/ \E i \in Ids, active \in BOOLEAN : Toggle(w, i, active)
           \/ \E a \in Apartments : AdminApartment(w, a)
           \/ \E i \in Ids : Login(w, i)
  BY <1>2, <1>8 DEF ListPending, ResendOtp, Approve, Reject, Toggle, AdminApartment, Login, Idle, flow
<1>9. CASE (\E p \in Phones : Verify(w, p)) \/ Verdict(w) \/ ConfirmBegins(w) \/ ConfirmEnds(w)
  <2>1. ASSUME NEW p \in Phones, Verify(w, p) PROVE Registers(w)'
    BY <1>2, <1>3, <2>1 DEF Verify, Serve, RoutesTypeOK
  <2>2. CASE Verdict(w) \/ ConfirmBegins(w) \/ ConfirmEnds(w)
    <3>1. serving[w] \in Serving /\ serving[w].kind = "verify"
      BY <2>2, Held DEF Verdict, ConfirmBegins, ConfirmEnds, Serves
    <3>2. Stage(w, "account") \/ Done(w) \/ UNCHANGED serving
      BY <2>2 DEF Verdict, ConfirmBegins, ConfirmEnds
    <3>3. serving'[w] = NULL \/ serving'[w].kind = "verify"
      BY <3>1, <3>2 DEF Stage, Done, RoutesTypeOK, Serving
    <3>4. QED
      BY <1>2, <1>3, <3>3
  <2>3. QED
    BY <1>9, <2>1, <2>2
<1>10. QED
  BY <1>4, <1>5, <1>6, <1>7, <1>8, <1>9 DEF RouteStep

LEMMA WizardStepKeeps ==
  ASSUME TypeOK, RoutesTypeOK, IdInv, WizardInv, [FlowNext]_avars
  PROVE  WizardInv'
<1>1. /\ \A p \in Phones : HasAccount(p) => HasAccount(p)'
      /\ \A k \in DOMAIN rows : k \in DOMAIN rows' /\ rows'[k].key = rows[k].key
  BY AccountsStay, ResidentSteps, DeskSteps, DeskKeeps DEF RoutesTypeOK
<1>2. \A p \in Phones : Issued(p) => Issued(p)'
  BY <1>1 DEF Issued
<1>3. \A p \in otp_step : p \in Phones /\ HasAccount(p) /\ Issued(p)
  BY DEF WizardInv, WizardHasAccount, HasAccount, Issued, RoutesTypeOK
<1>4. WizardHasAccount'
  <2>1. ASSUME NEW p \in otp_step' PROVE HasAccount(p)' /\ Issued(p)'
    <3>1. CASE p \in otp_step
      BY <1>1, <1>2, <1>3, <3>1
    <3>2. ASSUME NEW w \in Workers, RegisterOtp(w), p \notin otp_step PROVE HasAccount(p)' /\ Issued(p)'
      <4>1. p = serving[w].phone /\ Desk!Issue(p)
        BY <2>1, <3>2 DEF RegisterOtp, WizardMoves
      <4>2. p \in Phones /\ HasAccount(p)
        BY <3>2, <4>1, Held DEF RegisterOtp, Serves, WizardInv, Registers
      <4>3. Issued(p)'
        <5> DEFINE old == Desk!Revoked(p)  new == [key |-> p, live |-> TRUE]
        <5>1. rows' = Append(old, new) /\ rows' \in Seq(Desk!Row)
          <6>1. Desk!TypeOK'
            BY FlowTypingStep DEF RoutesTypeOK
          <6>2. QED
            BY <4>1, <6>1 DEF Desk!Issue, Desk!TypeOK
        <5>2. Len(old) \in Nat /\ new.key = p
          <6>1. old = [i \in 1 .. Len(rows) |-> IF rows[i].key = p THEN Desk!Dead(rows[i]) ELSE rows[i]]
            BY DEF Desk!Revoked, RoutesTypeOK, Desk!TypeOK
          <6>2. Len(rows) \in Nat
            BY DEF RoutesTypeOK, Desk!TypeOK
          <6> HIDE DEF new
          <6>3. Len(old) = Len(rows)
            BY <6>1, <6>2
          <6>4. QED
            BY <6>2, <6>3 DEF new
        <5> HIDE DEF old, new
        <5>3. Len(old) + 1 \in DOMAIN rows' /\ rows'[Len(old) + 1] = new
          BY <5>1, <5>2
        <5>4. QED
          BY <5>2, <5>3 DEF Issued
      <4>4. QED
        BY <1>1, <4>2, <4>3
    <3>3. CASE \A w \in Workers : ~RegisterOtp(w)
      <4>1. otp_step' \subseteq otp_step
        BY <3>3 DEF FlowNext, RouteStep, Register, RegisterGoes, ResendOtp, Verify, Verdict,
           ConfirmBegins, ConfirmEnds, WizardMoves, ListPending, Approve, Reject, Toggle, AdminEnds,
           AdminApartment, Login, RouteAborts, ReEnterDetails, avars, flow
      <4>2. QED
        BY <2>1, <3>1, <4>1
    <3>4. QED
      BY <3>1, <3>2, <3>3
  <2>2. QED
    BY <2>1 DEF WizardHasAccount, HasAccount, Issued
<1>5. ASSUME NEW v \in Workers PROVE Registers(v)'
  <2>1. Registers(v) /\ (serving[v] # NULL => serving[v].phone \in Phones)
    BY Held DEF WizardInv
  <2>2. CASE pc'[v] = pc[v] /\ req'[v] = req[v] /\ serving'[v] = serving[v]
    BY <1>1, <2>1, <2>2 DEF Registers, Serves, HasAccount
  <2>3. CASE RouteStep(v)
    BY <2>1, <2>3, RegistersKeeps
  <2>4. ASSUME NEW w \in Workers, w # v, RouteStep(w) PROVE Registers(v)'
    BY <2>2, <2>4, OthersKeep
  <2>5. CASE (\E p \in Phones : ReEnterDetails(p)) \/ UNCHANGED avars
    BY <2>2, <2>5 DEF ReEnterDetails, avars, vars, flow
  <2>6. QED
    BY <2>3, <2>4, <2>5 DEF FlowNext
<1>6. QED
  BY <1>4, <1>5 DEF WizardInv

\* However many workers there are, a wizard that asks for a code has an account for it.
THEOREM Wizards == FlowSpec => []WizardHasAccount
<1>1. FlowInit => WizardInv
  BY DEF FlowInit, WizardInv, WizardHasAccount, Registers, Serves
<1>2. TypeOK /\ RoutesTypeOK /\ IdInv /\ WizardInv /\ [FlowNext]_avars => WizardInv'
  BY WizardStepKeeps
<1>3. WizardInv => WizardHasAccount
  BY DEF WizardInv
<1>4. QED
  BY <1>1, <1>2, <1>3, FlowInvariant, Underneath, IdInvariant, PTL DEF FlowSpec, avars

-----------------------------------------------------------------------------
(* A single worker: ids keep their meaning, and tokens are earned *)

\* An OTP of the row's phone was taken after the row was inserted.
Vouched(i) == \E k \in DOMAIN accepts : k > born[i] /\ rows[accepts[k].log].key = users[i].phone

\* The route has just taken an OTP of the phone, later than any registration of today.
JustTaken(p) ==
    \E k \in DOMAIN accepts : /\ rows[accepts[k].log].key = p
                              /\ \A i \in Ids : born[i] < k

VerifiedVouched == \A i \in verified : users[i] # NULL /\ Vouched(i)

CredentialsReviewed ==
    \A i \in Ids : users[i] # NULL /\ users[i].password_hash # NULL => AccountOf(i) \in reviewed

HeldStand ==
    \A held \in page \cup tokens :
        users[held.id] # NULL /\ users[held.id].status # "pending_otp" /\ AccountOf(held.id) = held

TokensEarned == \A held \in tokens : held \in reviewed /\ held.id \in verified

\* What a lone handler knows between its steps.
Knows(w) ==
    /\ pc[w] = "approve" => AccountOf(req[w].id) \in reviewed
    /\ pc[w] = "confirm" =>
          Serves(w, "verify", "account") /\ HasPhone(users, req[w].id, serving[w].phone)
    /\ Serves(w, "verify", "otp") =>
          pc[w] = "idle" /\ loaded[w] # 0 /\ rows[loaded[w]].key = serving[w].phone
    /\ Serves(w, "verify", "account") => pc[w] \in {"idle", "confirm"} /\ JustTaken(serving[w].phone)

BornBefore == \A i \in Ids : born[i] <= Len(accepts)

TrailInv(w) ==
    VerifiedVouched /\ CredentialsReviewed /\ HeldStand /\ TokensEarned /\ Knows(w) /\ BornBefore

\* What a step of a lone worker does to the row of an id: it stays verified or becomes so
\* by a confirmation, and gets its password from an approval.
RowMoves(w, i) ==
    /\ i \in verified' =>
          /\ users'[i] # NULL /\ users[i] # NULL /\ users'[i].phone = users[i].phone
          /\ i \in verified \/ (pc[w] = "confirm" /\ i = req[w].id)
    /\ users'[i] # NULL /\ users'[i].password_hash # NULL =>
          /\ users[i] # NULL
          /\ users'[i].phone = users[i].phone /\ users'[i].apartment = users[i].apartment
          /\ users[i].password_hash # NULL \/ (pc[w] = "approve" /\ i = req[w].id)
    /\ i \in verified /\ users[i].status # "pending_otp" => i \in verified'

LEMMA RowsMove ==
  ASSUME NEW w \in Workers, Workers = {w}, TypeOK, OneInv, [Next]_vars,
         \A i \in verified : users[i] # NULL
  PROVE  \A i \in Ids : RowMoves(w, i)
<1>f. Fresh(w)
  BY DEF OneInv
<1>1. CASE UNCHANGED <<users, verified>>
  BY <1>1 DEF RowMoves
<1>2. ASSUME NEW i \in Ids, users[i] # NULL, NEW u \in User, users' = [users EXCEPT ![i] = u],
             u.phone = users[i].phone, u.apartment = users[i].apartment,
             \/ verified' = verified
             \/ verified' = verified \cup {i} /\ pc[w] = "confirm" /\ i = req[w].id,
             \/ u.password_hash = users[i].password_hash
             \/ pc[w] = "approve" /\ i = req[w].id
      PROVE  \A k \in Ids : RowMoves(w, k)
  <2>1. users'[i] = u /\ u # NULL /\ \A k \in Ids \ {i} : users'[k] = users[k]
    BY <1>2, ResidentsAssumption DEF TypeOK
  <2>2. RowMoves(w, i)
    BY <1>2, <2>1 DEF RowMoves
  <2>3. ASSUME NEW k \in Ids \ {i} PROVE RowMoves(w, k)
    BY <1>2, <2>1 DEF RowMoves
  <2>4. QED
    BY <2>2, <2>3
<1>3. ASSUME NEW table \in [Ids -> User \cup {NULL}], NEW gone \in SUBSET Ids,
             NEW p \in Phones, NEW a \in Apartments,
             \A k \in Ids : table[k] = IF k \in gone THEN NULL ELSE users[k],
             \A k \in gone : users[k] # NULL /\ users[k].status = "pending_otp",
             Insert(table, gone, p, a)
      PROVE  \A k \in Ids : RowMoves(w, k)
  <2>1. PICK n \in Ids : /\ NextId(table, n)
                         /\ users' = [table EXCEPT ![n] = NewUser(p, a)]
                         /\ verified' = verified \ (gone \cup {n})
    BY <1>3 DEF Insert
  <2>2. /\ users'[n] = NewUser(p, a) /\ NewUser(p, a).password_hash = NULL
        /\ \A k \in Ids \ {n} : users'[k] = table[k]
    BY <2>1 DEF NewUser
  <2>3. table[n] = NULL
    BY <2>1 DEF NextId, Ids
  <2>4. RowMoves(w, n)
    BY <1>3, <2>1, <2>2, <2>3 DEF RowMoves
  <2>5. ASSUME NEW k \in Ids \ {n} PROVE RowMoves(w, k)
    BY <1>3, <2>1, <2>2 DEF RowMoves
  <2>6. QED
    BY <2>4, <2>5
<1>4. CASE RegisterCreate(w) \/ RegisterInsert(w)
  <2>1. req[w].phone \in Phones /\ req[w].apartment \in Apartments
    BY <1>4 DEF RegisterCreate, RegisterInsert, TypeOK, Registering
  <2>2. \/ UNCHANGED <<users, verified>>
        \/ Insert(users, {}, req[w].phone, req[w].apartment)
    BY <1>4 DEF RegisterCreate, RegisterInsert, Unchanged
  <2>3. QED
    BY <1>1, <1>3, <2>1, <2>2 DEF TypeOK
<1>5. CASE RegisterRestart(w)
  <2>1. /\ req[w].phone \in Phones /\ req[w].apartment \in Apartments /\ req[w].id \in Ids
        /\ users[req[w].id] # NULL /\ users[req[w].id].status = "pending_otp"
    BY <1>5, <1>f DEF RegisterRestart, TypeOK, Registering, HoldsId, Fresh
  <2>2. \/ UNCHANGED <<users, verified>>
        \/ Insert(RestartRows(w), {req[w].id}, req[w].phone, req[w].apartment)
    BY <1>5 DEF RegisterRestart, RestartRows, Unchanged
  <2>3. /\ RestartRows(w) \in [Ids -> User \cup {NULL}]
        /\ \A k \in Ids : RestartRows(w)[k] = IF k \in {req[w].id} THEN NULL ELSE users[k]
    BY DEF RestartRows, TypeOK
  <2>4. QED
    BY <1>1, <1>3, <2>1, <2>2, <2>3
<1>6. CASE ConfirmCommit(w)
  <2>1. PICK i \in Ids : i = req[w].id
    BY <1>6 DEF ConfirmCommit, TypeOK, HoldsId
  <2>2. users[i] # NULL /\ users[i] \in User
    BY <1>6, <1>f, <2>1 DEF ConfirmCommit, Fresh, TypeOK
  <2> DEFINE u == [users[i] EXCEPT !.status = "pending_approval"]
  <2>3. /\ u \in User /\ u.phone = users[i].phone /\ u.apartment = users[i].apartment
        /\ u.password_hash = users[i].password_hash
    BY <2>2 DEF User, UserStatus
  <2>4. /\ users' = [users EXCEPT ![i] = u] /\ verified' = verified \cup {i} /\ pc[w] = "confirm"
    BY <1>6, <2>1, <2>2 DEF ConfirmCommit
  <2> HIDE DEF u
  <2>5. QED
    BY <1>2, <2>1, <2>2, <2>3, <2>4
<1>7. CASE ApproveCommit(w)
  <2>1. PICK i \in Ids : i = req[w].id
    BY <1>7 DEF ApproveCommit, TypeOK, HoldsId
  <2>2. users[i] # NULL /\ users[i] \in User
    BY <1>7, <1>f, <2>1 DEF ApproveCommit, Fresh, TypeOK
  <2> DEFINE u == [users[i] EXCEPT !.status = "approved", !.password_hash = "bcrypt"]
  <2>3. u \in User /\ u.phone = users[i].phone /\ u.apartment = users[i].apartment
    BY <2>2 DEF User, UserStatus
  <2>4. users' = [users EXCEPT ![i] = u] /\ verified' = verified /\ pc[w] = "approve"
    BY <1>7, <2>1, <2>2 DEF ApproveCommit
  <2> HIDE DEF u
  <2>5. QED
    BY <1>2, <2>1, <2>2, <2>3, <2>4
<1>8. ASSUME NEW i \in Ids, RejectUser(w, i) PROVE \A k \in Ids : RowMoves(w, k)
  <2>1. users[i] # NULL /\ users[i] \in User
    BY <1>8 DEF RejectUser, TypeOK
  <2> DEFINE u == [users[i] EXCEPT !.status = "rejected"]
  <2>2. /\ u \in User /\ u.phone = users[i].phone /\ u.apartment = users[i].apartment
        /\ u.password_hash = users[i].password_hash
    BY <2>1 DEF User, UserStatus
  <2>3. users' = [users EXCEPT ![i] = u] /\ verified' = verified
    BY <1>8 DEF RejectUser
  <2> HIDE DEF u
  <2>4. QED
    BY <1>2, <2>1, <2>2, <2>3
<1>9. CASE ToggleCommit(w)
  <2>1. PICK i \in Ids : i = req[w].id
    BY <1>9 DEF ToggleCommit, TypeOK, HoldsId
  <2>2. users[i] # NULL /\ users[i] \in User /\ req[w] \in Request
    BY <1>9, <1>f, <2>1 DEF ToggleCommit, Fresh, TypeOK
  <2> DEFINE r == req[w]  new == ToggledStatus(r.active, r.status)
             b == IF r.active = r.is_active THEN users[i].is_active ELSE r.active
             s == IF new = r.status THEN users[i].status ELSE new
             u == [users[i] EXCEPT !.is_active = b, !.status = s]
  <2>3. b \in BOOLEAN /\ s \in UserStatus
    BY <2>2 DEF User, Request, ToggledStatus, UserStatus
  <2>4. users' = [users EXCEPT ![i] = u] /\ verified' = verified
    BY <1>9, <2>1, <2>2 DEF ToggleCommit
  <2> HIDE DEF b, s
  <2>5. /\ u \in User /\ u.phone = users[i].phone /\ u.apartment = users[i].apartment
        /\ u.password_hash = users[i].password_hash
    BY <2>2, <2>3 DEF User
  <2> HIDE DEF u
  <2>6. QED
    BY <1>2, <2>1, <2>2, <2>4, <2>5
<1>10. QED
  BY <1>1, <1>4, <1>5, <1>6, <1>7, <1>8, <1>9
  DEF Next, vars, Unchanged, RegisterSelect, RegisterApartment, RegisterCount, ConfirmSelect,
      ApproveSelect, ToggleSelect, CreateApartment, UpdateApartment, Abort

\* Acceptances stay, with the phone they were for.
LEMMA AcceptancesStay ==
  ASSUME RoutesTypeOK, [FlowNext]_avars
  PROVE  /\ \A k \in DOMAIN accepts : /\ k \in DOMAIN accepts'
                                      /\ rows'[accepts'[k].log].key = rows[accepts[k].log].key
         /\ Len(accepts) <= Len(accepts')
<1>1. /\ Desk!TypeOK /\ Desk!TypeOK'
      /\ \A i \in DOMAIN rows : rows'[i].key = rows[i].key
      /\ \A k \in DOMAIN accepts : k \in DOMAIN accepts' /\ accepts'[k] = accepts[k]
  BY DeskSteps, DeskKeeps DEF RoutesTypeOK
<1>2. \A k \in DOMAIN accepts : accepts[k].log \in DOMAIN rows
  BY <1>1 DEF Desk!TypeOK
<1> DEFINE n == Len(accepts)  m == Len(accepts')
<1>3. n \in Nat /\ m \in Nat /\ DOMAIN accepts = 1 .. n /\ DOMAIN accepts' = 1 .. m
  BY <1>1 DEF Desk!TypeOK
<1> HIDE DEF n, m
<1>4. n <= m
  <2>1. CASE n = 0
    BY <1>3, <2>1
  <2>2. CASE n # 0
    <3>1. n \in DOMAIN accepts
      BY <1>3, <2>2
    <3>2. n \in DOMAIN accepts'
      BY <1>1, <3>1
    <3>3. QED
      BY <1>3, <3>2
  <2>3. QED
    BY <2>1, <2>2
<1>5. QED
  BY <1>1, <1>2, <1>4 DEF n, m

\* The history of a row changes only with a row just inserted, which is not verified.
LEMMA BornMoves ==
  ASSUME TypeOK, RoutesTypeOK, OneAccountPerPhone', NEW w \in Workers, Workers = {w}, [FlowNext]_avars,
         NEW i \in Ids
  PROVE  \/ born'[i] = born[i]
         \/ RegisterGoes(w) /\ born'[i] = Len(accepts) /\ i \notin verified'
<1>1. ASSUME RegisterGoes(w)
      PROVE  \/ born'[i] = born[i]
             \/ RegisterGoes(w) /\ born'[i] = Len(accepts) /\ i \notin verified'
  <2>1. CASE UNCHANGED born
    BY <2>1
  <2>2. CASE /\ Commits(w)
             /\ born' = [j \in Ids |-> IF HasPhone(users', j, req[w].phone) THEN Len(accepts)
                                                                           ELSE born[j]]
    <3>1. PICK n \in Ids : HasPhone(users', n, req[w].phone) /\ n \notin verified'
      BY <1>1, <2>2, CommitInserts
    <3>2. CASE HasPhone(users', i, req[w].phone)
      <4>1. i = n
        BY <3>1, <3>2 DEF HasPhone, OneAccountPerPhone
      <4>2. QED
        BY <1>1, <2>2, <3>1, <3>2, <4>1
    <3>3. CASE ~HasPhone(users', i, req[w].phone)
      BY <2>2, <3>3
    <3>4. QED
      BY <3>2, <3>3
  <2>3. QED
    BY <1>1, <2>1, <2>2 DEF RegisterGoes
<1>2. CASE UNCHANGED born
  BY <1>2
<1>3. QED
  BY <1>1, <1>2 DEF FlowNext, RouteStep, Register, RegisterOtp, ResendOtp, Verify, Verdict,
     ConfirmBegins, ConfirmEnds, ListPending, Approve, Reject, Toggle, AdminEnds, AdminApartment,
     Login, RouteAborts, ReEnterDetails, avars, flow

\* What a step adds to the page, the tokens and the registrations reviewed.
LEMMA HeldMoves ==
  ASSUME [FlowNext]_avars
  PROVE  /\ reviewed \subseteq reviewed'
         /\ \A held \in page' : held \in page \/
               \E i \in Ids : /\ users[i] # NULL /\ users[i].status = "pending_approval"
                              /\ held = AccountOf(i) /\ UNCHANGED vars
         /\ \A held \in tokens' : held \in tokens \/
               \E i \in Ids : MayLogIn(i) /\ held = AccountOf(i) /\ UNCHANGED vars
<1>1. ASSUME NEW w \in Workers, ListPending(w)
      PROVE  /\ UNCHANGED <<tokens, reviewed>>
             /\ \A held \in page' : \E i \in Ids :
                   /\ users[i] # NULL /\ users[i].status = "pending_approval"
                   /\ held = AccountOf(i) /\ UNCHANGED vars
  BY <1>1 DEF ListPending
<1>2. ASSUME NEW w \in Workers, NEW i \in Ids, Login(w, i)
      PROVE  /\ reviewed' = reviewed /\ page' = page
             /\ \A held \in tokens' : held \in tokens \/
                   (MayLogIn(i) /\ held = AccountOf(i) /\ UNCHANGED vars)
  BY <1>2 DEF Login
<1>3. ASSUME NEW w \in Workers, NEW shown \in page, Approve(w, shown)
      PROVE  reviewed \subseteq reviewed' /\ UNCHANGED <<page, tokens>>
  BY <1>3 DEF Approve
<1>4. CASE UNCHANGED <<page, tokens, reviewed>>
  BY <1>4
<1>5. QED
  BY <1>1, <1>2, <1>3, <1>4 DEF FlowNext, RouteStep, Register, RegisterGoes, RegisterOtp, ResendOtp,
     Verify, Verdict, ConfirmBegins, ConfirmEnds, Reject, Toggle, AdminEnds, AdminApartment,
     RouteAborts, ReEnterDetails, avars, flow

\* What the lone handler knows stays so, or is what it has just learnt.
LEMMA KnowsKeeps ==
  ASSUME NEW w \in Workers, Workers = {w}, TypeOK, RoutesTypeOK, HeldStand, BornBefore, Knows(w),
         [FlowNext]_avars
  PROVE  Knows(w)'
<1>a. \A k \in DOMAIN accepts : k \in DOMAIN accepts'
                                /\ rows'[accepts'[k].log].key = rows[accepts[k].log].key
  BY AcceptancesStay
<1>b. \A i \in DOMAIN rows : rows'[i].key = rows[i].key
  BY DeskSteps, DeskKeeps DEF RoutesTypeOK
<1>c. /\ loaded \in [Workers -> Nat] /\ (loaded[w] # 0 => loaded[w] \in DOMAIN rows)
      /\ serving \in [Workers -> Serving \cup {NULL}]
  BY DEF RoutesTypeOK, Desk!TypeOK
<1>j. ASSUME NEW p, JustTaken(p), UNCHANGED born PROVE JustTaken(p)'
  BY <1>a, <1>j DEF JustTaken
<1>q. ASSUME UNCHANGED <<vars, serving, born>>, loaded'[w] = loaded[w], reviewed \subseteq reviewed'
      PROVE  Knows(w)'
  <2>1. Serves(w, "verify", "account") => JustTaken(serving[w].phone)'
    BY <1>j, <1>q DEF Knows, JustTaken
  <2>2. Serves(w, "verify", "otp") => rows'[loaded'[w]].key = serving'[w].phone
    BY <1>b, <1>c, <1>q DEF Knows
  <2>3. QED
    BY <1>q, <2>1, <2>2 DEF Knows, Serves, HasPhone, AccountOf, vars
<1>n. ASSUME pc'[w] \notin {"approve", "confirm"}, serving'[w] = NULL \/ serving'[w].kind = "register"
      PROVE  Knows(w)'
  BY <1>n DEF Knows, Serves
<1>1. ASSUME NEW p \in Phones, NEW a \in Apartments, Register(w, p, a) PROVE Knows(w)'
  <2>1. pc'[w] \in {"apartment", "restart"} /\ serving'[w].kind = "register"
    BY <1>1, <1>c DEF Register, RegisterSelect, Start, Serve, TypeOK
  <2>2. QED
    BY <1>n, <2>1
<1>2. CASE RegisterGoes(w)
  <2>1. serving[w] \in Serving /\ serving[w].kind = "register"
    BY <1>2, Held DEF RegisterGoes, Serves
  <2>2. UNCHANGED serving \/ Stage(w, "otp") \/ Done(w)
    BY <1>2 DEF RegisterGoes
  <2>3. serving'[w] = NULL \/ serving'[w].kind = "register"
    BY <1>c, <2>1, <2>2 DEF Stage, Done, Serving
  <2>4. pc'[w] \in {"create", "count", "insert", "idle"}
    BY <1>2 DEF RegisterGoes, RegisterApartment, RegisterCreate, RegisterCount, RegisterInsert,
                RegisterRestart, Return, TypeOK
  <2>5. QED
    BY <1>n, <2>3, <2>4
<1>3. CASE RegisterOtp(w)
  <2>1. Serves(w, "register", "otp") /\ UNCHANGED vars /\ UNCHANGED reviewed /\ serving'[w] = NULL
    BY <1>3, <1>c DEF RegisterOtp, Done
  <2>2. pc[w] # "confirm"
    BY <2>1 DEF Knows, Serves
  <2>3. QED
    BY <2>1, <2>2 DEF Knows, Serves, AccountOf, vars
<1>4. ASSUME NEW p \in Phones, Verify(w, p) PROVE Knows(w)'
  <2>1. PICK i \in DOMAIN rows : rows[i].key = p /\ loaded' = [loaded EXCEPT ![w] = i]
    BY <1>4 DEF Verify, Desk!Load
  <2> DEFINE s == [kind |-> "verify", phone |-> p, stage |-> "otp"]
  <2>2. serving'[w] = s /\ pc'[w] = "idle"
    BY <1>4, <1>c DEF Verify, Serve, Idle, vars
  <2>3. loaded'[w] = i /\ rows'[i].key = p /\ i # 0
    BY <1>b, <1>c, <2>1 DEF RoutesTypeOK, Desk!TypeOK
  <2>4. QED
    BY <2>2, <2>3 DEF Knows, Serves
<1>5. CASE Verdict(w)
  <2>1. /\ serving[w] \in Serving /\ pc[w] = "idle" /\ UNCHANGED vars /\ UNCHANGED born
        /\ serving[w].kind = "verify"
        /\ loaded[w] \in DOMAIN rows /\ rows[loaded[w]].key = serving[w].phone
    BY <1>5, <1>c, Held DEF Verdict, Serves, Knows
  <2>2. pc'[w] = "idle"
    BY <2>1 DEF vars
  <2>3. CASE Desk!Accept(w) /\ Stage(w, "account")
    <3>1. /\ serving'[w].stage = "account" /\ serving'[w].phone = serving[w].phone
      BY <1>c, <2>1, <2>3 DEF Stage, Serving
    <3>2. JustTaken(serving[w].phone)'
      <4> DEFINE a == [worker |-> w, log |-> loaded[w]]  n == Len(accepts)
      <4>1. accepts' = Append(accepts, a) /\ a.log = loaded[w]
        BY <2>3 DEF Desk!Accept
      <4>2. n \in Nat /\ Desk!TypeOK' /\ \A i \in Ids : born[i] \in Nat
        BY FlowTypingStep DEF RoutesTypeOK, Desk!TypeOK
      <4> HIDE DEF a
      <4>3. n + 1 \in DOMAIN accepts' /\ accepts'[n + 1] = a
        BY <4>1, <4>2 DEF Desk!TypeOK
      <4>4. \A i \in Ids : born'[i] < n + 1
        BY <2>1, <4>2 DEF BornBefore
      <4>5. rows'[accepts'[n + 1].log].key = serving'[w].phone
        BY <1>b, <2>1, <3>1, <4>1, <4>3
      <4> HIDE DEF n
      <4>6. QED
        BY <4>3, <4>4, <4>5 DEF JustTaken
    <3>3. QED
      BY <2>2, <3>1, <3>2 DEF Knows, Serves
  <2>4. CASE Done(w)
    BY <1>n, <1>c, <2>2, <2>4 DEF Done
  <2>5. QED
    BY <1>5, <2>3, <2>4 DEF Verdict
<1>6. CASE ConfirmBegins(w)
  <2>1. /\ Serves(w, "verify", "account") /\ pc[w] = "idle" /\ JustTaken(serving[w].phone)
        /\ UNCHANGED <<desk, born>>
    BY <1>6 DEF ConfirmBegins, Knows
  <2>2. CASE ConfirmSelect(w, serving[w].phone) /\ UNCHANGED serving
    <3>1. PICK i \in Ids :
            /\ HasPhone(users, i, serving[w].phone)
            /\ Start(w, "confirm", [NoRequest EXCEPT !.phone = serving[w].phone, !.id = i])
            /\ Unchanged
      BY <2>2 DEF ConfirmSelect
    <3>2. pc'[w] = "confirm" /\ req'[w].id = i /\ users' = users
      BY <3>1 DEF Start, NoRequest, TypeOK, Unchanged
    <3>3. JustTaken(serving[w].phone)'
      BY <1>j, <2>1, <2>2 DEF JustTaken
    <3>4. QED
      BY <2>1, <2>2, <3>1, <3>2, <3>3 DEF Knows, Serves, HasPhone
  <2>3. CASE Done(w) /\ UNCHANGED vars
    BY <1>n, <1>c, <2>1, <2>3 DEF Done, vars
  <2>4. QED
    BY <1>6, <2>2, <2>3 DEF ConfirmBegins
<1>7. CASE ConfirmEnds(w)
  BY <1>n, <1>c, <1>7 DEF ConfirmEnds, ConfirmCommit, Return, Done, TypeOK
<1>8. ASSUME NEW shown \in page, Approve(w, shown) PROVE Knows(w)'
  <2>1. PICK i \in Ids : i = shown.id
    BY Held
  <2>2. pc'[w] = "approve" /\ req'[w].id = i /\ users' = users
    BY <1>8, <2>1 DEF Approve, ApproveSelect, Start, NoRequest, TypeOK, Unchanged
  <2>3. AccountOf(i) = shown /\ shown \in reviewed' /\ serving'[w] = NULL
    BY <1>8, <2>1 DEF Approve, HeldStand, Idle
  <2>4. QED
    BY <2>2, <2>3 DEF Knows, Serves, AccountOf
<1>9. CASE \/ \E shown \in page : Reject(w, shown)
           \/ \E i \in Ids, active \in BOOLEAN : Toggle(w, i, active)
           \/ \E a \in Apartments : AdminApartment(w, a)
  <2>1. serving'[w] = NULL
    BY <1>9 DEF Reject, Toggle, AdminApartment, Idle, flow
  <2>2. pc'[w] \in {"idle", "toggle"}
    BY <1>9 DEF Reject, Toggle, AdminApartment, Idle, RejectUser, ToggleSelect, Start, CreateApartment,
                UpdateApartment, TypeOK
  <2>3. QED
    BY <1>n, <2>1, <2>2
<1>10. CASE AdminEnds(w)
  <2>1. pc[w] \in {"approve", "toggle"} /\ pc'[w] = "idle" /\ UNCHANGED serving
    BY <1>10 DEF AdminEnds, ApproveCommit, ToggleCommit, Return, TypeOK, flow
  <2>2. ~Serves(w, "verify", "otp") /\ ~Serves(w, "verify", "account")
    BY <2>1 DEF Knows
  <2>3. QED
    BY <2>1, <2>2 DEF Knows, Serves
<1>11. CASE RouteAborts(w)
  <2>1. pc'[w] = "idle" /\ serving'[w] = NULL
    BY <1>11, <1>c DEF RouteAborts, Abort, Return, Done, TypeOK, vars
  <2>2. QED
    BY <1>n, <2>1
<1>12. CASE \/ ListPending(w)
            \/ \E p \in Phones : ResendOtp(w, p) \/ ReEnterDetails(p)
            \/ \E i \in Ids : Login(w, i)
            \/ UNCHANGED avars
  <2>1. /\ UNCHANGED <<vars, serving, born>> /\ loaded' = loaded /\ reviewed' = reviewed
    BY <1>12 DEF ListPending, ResendOtp, ReEnterDetails, Login, Desk!Issue, avars, desk, flow
  <2>2. QED
    BY <1>q, <2>1
<1>13. QED
  BY <1>1, <1>2, <1>3, <1>4, <1>5, <1>6, <1>7, <1>8, <1>9, <1>10, <1>11, <1>12 DEF FlowNext, RouteStep

LEMMA TrailStep ==
  ASSUME NEW w \in Workers, Workers = {w}, TypeOK, RoutesTypeOK, IdInv, OneInv, TrailInv(w),
         [FlowNext]_avars
  PROVE  TrailInv(w)'
<1> USE DEF TrailInv
<1>1. /\ [Next]_vars /\ KeepsPastOtp /\ OneAccountPerPhone'
      /\ \A i \in Ids : RowMoves(w, i)
  <2>1. [Next]_vars
    BY ResidentSteps
  <2>2. KeepsPastOtp
    BY <2>1, OneStep
  <2>3. OneAccountPerPhone'
    BY <2>1, IdStep DEF IdInv
  <2>4. \A i \in verified : users[i] # NULL
    BY DEF VerifiedVouched
  <2>5. \A i \in Ids : RowMoves(w, i)
    BY <2>1, <2>4, RowsMove
  <2>6. QED
    BY <2>1, <2>2, <2>3, <2>5
<1>2. /\ \A k \in DOMAIN accepts : /\ k \in DOMAIN accepts'
                                   /\ rows'[accepts'[k].log].key = rows[accepts[k].log].key
      /\ Len(accepts) <= Len(accepts')
      /\ Len(accepts) \in Nat /\ Len(accepts') \in Nat
      /\ \A i \in Ids : born[i] \in Nat
      /\ verified' \subseteq Ids
  BY AcceptancesStay, FlowTypingStep, <1>1, TypingStep DEF RoutesTypeOK, Desk!TypeOK, TypeOK
<1>3. \A i \in Ids : \/ born'[i] = born[i]
                     \/ RegisterGoes(w) /\ born'[i] = Len(accepts) /\ i \notin verified'
  BY <1>1, BornMoves
<1>4. VerifiedVouched'
  <2> SUFFICES ASSUME NEW i \in verified' PROVE users'[i] # NULL /\ Vouched(i)'
    BY DEF VerifiedVouched
  <2>1. i \in Ids /\ born'[i] = born[i]
    BY <1>2, <1>3
  <2>2. users'[i] # NULL /\ users[i] # NULL /\ users'[i].phone = users[i].phone
    BY <1>1, <2>1 DEF RowMoves
  <2>3. \E k \in DOMAIN accepts : k > born[i] /\ rows[accepts[k].log].key = users[i].phone
    <3>1. CASE i \in verified
      BY <3>1 DEF VerifiedVouched, Vouched
    <3>2. CASE pc[w] = "confirm" /\ i = req[w].id
      <4>1. users[i].phone = serving[w].phone /\ JustTaken(serving[w].phone)
        BY <3>2 DEF Knows, HasPhone
      <4>2. PICK k \in DOMAIN accepts : rows[accepts[k].log].key = users[i].phone /\ born[i] < k
        BY <2>1, <4>1 DEF JustTaken
      <4>3. k \in Nat
        BY <4>2 DEF RoutesTypeOK, Desk!TypeOK
      <4>4. QED
        BY <1>2, <2>1, <4>2, <4>3
    <3>3. QED
      BY <1>1, <2>1, <3>1, <3>2 DEF RowMoves
  <2>4. QED
    BY <1>2, <2>1, <2>2, <2>3 DEF Vouched
<1>5. CredentialsReviewed'
  <2> SUFFICES ASSUME NEW i \in Ids, users'[i] # NULL, users'[i].password_hash # NULL
               PROVE  AccountOf(i)' \in reviewed'
    BY DEF CredentialsReviewed
  <2>1. AccountOf(i)' = AccountOf(i) /\ users[i] # NULL
    BY <1>1 DEF RowMoves, AccountOf
  <2>2. AccountOf(i) \in reviewed
    BY <1>1 DEF RowMoves, CredentialsReviewed, Knows
  <2>3. QED
    BY <2>1, <2>2, HeldMoves
<1>6. HeldStand'
  <2> SUFFICES ASSUME NEW held \in page' \cup tokens'
               PROVE  /\ users'[held.id] # NULL /\ users'[held.id].status # "pending_otp"
                      /\ AccountOf(held.id)' = held
    BY DEF HeldStand, AccountOf
  <2>1. CASE held \in page \cup tokens
    <3>1. PICK i \in Ids : i = held.id
      BY <2>1, Held
    <3>2. users[i] # NULL /\ users[i].status # "pending_otp" /\ AccountOf(i) = held
      BY <2>1, <3>1 DEF HeldStand
    <3>3. KeepsAccount(users[i], users'[i])
      BY <1>1, <3>2 DEF KeepsPastOtp
    <3>4. QED
      BY <3>1, <3>2, <3>3 DEF KeepsAccount, AccountOf
  <2>2. CASE held \notin page \cup tokens
    <3>1. PICK i \in Ids : /\ users[i] # NULL
                           /\ users[i].status = "pending_approval" \/ users[i].status = "approved"
                           /\ held = AccountOf(i) /\ UNCHANGED vars
      BY <2>2, HeldMoves DEF MayLogIn
    <3>2. held.id = i /\ users' = users
      BY <3>1 DEF AccountOf, vars
    <3>3. QED
      BY <3>1, <3>2 DEF AccountOf
  <2>3. QED
    BY <2>1, <2>2
<1>7. TokensEarned'
  <2> SUFFICES ASSUME NEW held \in tokens' PROVE held \in reviewed' /\ held.id \in verified'
    BY DEF TokensEarned
  <2>1. CASE held \in tokens
    <3>1. held \in reviewed /\ held.id \in verified /\ users[held.id].status # "pending_otp"
      BY <2>1 DEF TokensEarned, HeldStand
    <3>2. held.id \in Ids
      BY <2>1, Held
    <3>3. QED
      BY <1>1, <3>1, <3>2, HeldMoves DEF RowMoves
  <2>2. CASE held \notin tokens
    <3>1. PICK i \in Ids : MayLogIn(i) /\ held = AccountOf(i) /\ UNCHANGED vars
      BY <2>2, HeldMoves
    <3>2. held.id = i /\ held \in reviewed /\ i \in verified
      BY <3>1 DEF AccountOf, MayLogIn, CredentialsReviewed, OneInv, Good
    <3>3. QED
      BY <3>1, <3>2, HeldMoves DEF vars
  <2>3. QED
    BY <2>1, <2>2
<1>8. Knows(w)'
  BY KnowsKeeps
<1>9. BornBefore'
  <2> SUFFICES ASSUME NEW i \in Ids PROVE born'[i] <= Len(accepts')
    BY DEF BornBefore
  <2>1. born[i] <= Len(accepts)
    BY DEF BornBefore
  <2>2. born'[i] <= Len(accepts)
    BY <1>2, <1>3, <2>1
  <2>3. QED
    BY <1>2, <1>3, <2>1, <2>2
<1>10. QED
  BY <1>4, <1>5, <1>6, <1>7, <1>8, <1>9

LEMMA TrailInvariant ==
  ASSUME NEW w \in Workers, Workers = {w}
  PROVE  FlowSpec => []TrailInv(w)
<1>1. FlowInit => TrailInv(w)
  BY DEF FlowInit, Init, Desk!Init, TrailInv, VerifiedVouched, CredentialsReviewed, HeldStand,
         TokensEarned, Knows, Serves, BornBefore
<1>2. Init => OneInv
  BY DEF Init, OneInv, Good, Fresh
<1>3. TypeOK /\ OneInv /\ [Next]_vars => OneInv'
  BY OneStep
<1>4. Spec => []OneInv
  BY <1>2, <1>3, Typing, PTL DEF Spec
<1>5. TypeOK /\ RoutesTypeOK /\ IdInv /\ OneInv /\ TrailInv(w) /\ [FlowNext]_avars => TrailInv(w)'
  BY TrailStep
<1>6. QED
  BY <1>1, <1>4, <1>5, FlowInvariant, Underneath, IdInvariant, PTL DEF FlowSpec, avars

\* With one worker an id on an administrator's screen or in a token goes on to mean the
\* registration it was shown or given for.
THEOREM HeldIds ==
  ASSUME NEW w \in Workers, Workers = {w}
  PROVE  FlowSpec => []HeldIdsKeepMeaning
<1>1. TrailInv(w) => HeldIdsKeepMeaning
  BY DEF TrailInv, HeldStand, HeldIdsKeepMeaning
<1>2. QED
  BY <1>1, TrailInvariant, PTL

\* With one worker a token was earned: an OTP of its phone taken after the registration
\* was made, and the registration approved as it was shown.
THEOREM Approved ==
  ASSUME NEW w \in Workers, Workers = {w}
  PROVE  FlowSpec => []ActsOnlyAsApproved
<1>1. RoutesTypeOK /\ TrailInv(w) => ActsOnlyAsApproved
  <2> SUFFICES ASSUME RoutesTypeOK, TrailInv(w), NEW held \in tokens
               PROVE  /\ held \in reviewed
                      /\ \E k \in DOMAIN accepts :
                            k > born[held.id] /\ rows[accepts[k].log].key = held.phone
    BY DEF ActsOnlyAsApproved
  <2>1. held \in reviewed /\ Vouched(held.id)
    BY DEF TrailInv, TokensEarned, VerifiedVouched
  <2>2. AccountOf(held.id) = held
    BY DEF TrailInv, HeldStand
  <2>3. users[held.id].phone = held.phone
    BY <2>2 DEF AccountOf
  <2>4. QED
    BY <2>1, <2>3 DEF Vouched
<1>2. QED
  BY <1>1, FlowInvariant, TrailInvariant, PTL

\* What one worker promises about the accounts holds under the routes, the wizards, the page
\* and the tokens: flags and status agree, credentials follow the phone check, nobody past
\* the OTP stage is deleted, a rejection sticks, a full apartment takes no registration, and
\* the tables amount to the account book.
THEOREM FlowAccounts ==
  ASSUME NEW w \in Workers, Workers = {w}
  PROVE  FlowSpec => /\ []FlagMatchesStatus
                     /\ []CredentialsFollowVerification
                     /\ PastOtpKept
                     /\ RejectionSticks
                     /\ AdmittedWithinLimit
                     /\ ImplementsBook
<1>1. /\ Spec => []FlagMatchesStatus /\ []CredentialsFollowVerification
      /\ Spec => PastOtpKept /\ RejectionSticks
  BY SingleWorkerFlags, SingleWorkerCredentials, SingleWorkerPastOtp, SingleWorkerRejection, PTL
<1>2. Spec => AdmittedWithinLimit /\ ImplementsBook
  BY SingleWorkerLimit, SingleWorkerBook, PTL
<1>3. QED
  BY <1>1, <1>2, Underneath, PTL

-----------------------------------------------------------------------------
(* Any number of workers: whose token it is *)

\* An OTP of the phone has been taken; the id was approved, shown with its owner's phone.
Taken(p) == \E k \in DOMAIN accepts : rows[accepts[k].log].key = p
Shown(i) == \E account \in reviewed : account.id = i /\ account.phone = owner[i]

\* With several workers a registration may be restarted while another worker confirms or
\* approves it, and a token may then be for an apartment that was not reviewed.  What is left:
\* the token's id never meant another phone, that phone took an OTP, and an administrator
\* approved the id as that phone's (auth_service.py:83-86, 119-168, admin_service.py:46-64).
TokensOfOwner ==
    \A held \in tokens : owner[held.id] = held.phone /\ Taken(held.phone) /\ Shown(held.id)

PageOfOwner == \A held \in page : owner[held.id] = held.phone /\ Taken(held.phone)

RowsEarned ==
    \A i \in Ids : users[i] # NULL =>
        /\ users[i].status = "pending_approval" => Taken(owner[i])
        /\ users[i].password_hash # NULL => Taken(owner[i]) /\ Shown(i)

\* What a handler may rely on, whatever the others do meanwhile.
KnowsOwner(w) ==
    /\ pc[w] = "approve" => Taken(owner[req[w].id]) /\ Shown(req[w].id)
    /\ pc[w] = "confirm" =>
          Serves(w, "verify", "account") /\ owner[req[w].id] = serving[w].phone
    /\ Serves(w, "verify", "otp") => loaded[w] # 0 /\ rows[loaded[w]].key = serving[w].phone
    /\ Serves(w, "verify", "account") => Taken(serving[w].phone)

OwnerInv == TokensOfOwner /\ PageOfOwner /\ RowsEarned /\ \A w \in Workers : KnowsOwner(w)

\* An id once given keeps its first owner.
LEMMA OwnersStay ==
  ASSUME TypeOK, [Next]_vars, NEW i \in Ids, owner[i] # NULL
  PROVE  owner'[i] = owner[i]
<1>1. ASSUME NEW table, NEW n \in Ids, NEW p, Inserts(table, n, p) PROVE owner'[i] = owner[i]
  BY <1>1 DEF Inserts, TypeOK
<1>2. ASSUME NEW j \in Ids, Edits(j) PROVE owner'[i] = owner[i]
  BY <1>2 DEF Edits
<1>3. QED
  BY <1>1, <1>2, UserSteps

\* Where a row gets its status and its password from, whoever writes it.
RowEarns(i) ==
    users'[i] # NULL =>
        /\ users'[i].status = "pending_approval" =>
              \/ users[i] # NULL /\ users[i].status = "pending_approval"
              \/ \E w \in Workers : pc[w] = "confirm" /\ req[w].id = i
        /\ users'[i].password_hash # NULL =>
              \/ users[i] # NULL /\ users[i].password_hash # NULL
              \/ \E w \in Workers : pc[w] = "approve" /\ req[w].id = i

LEMMA RowsEarn ==
  ASSUME TypeOK, [Next]_vars
  PROVE  \A i \in Ids : RowEarns(i)
<1>1. CASE UNCHANGED users
  BY <1>1 DEF RowEarns
<1>2. ASSUME NEW w \in Workers, NEW i \in Ids, users[i] # NULL, NEW u,
             users' = [users EXCEPT ![i] = u],
             \/ u.status # "pending_approval" \/ u.status = users[i].status
             \/ pc[w] = "confirm" /\ req[w].id = i,
             \/ u.password_hash = users[i].password_hash
             \/ pc[w] = "approve" /\ req[w].id = i
      PROVE  \A k \in Ids : RowEarns(k)
  <2>1. users'[i] = u /\ \A k \in Ids \ {i} : users'[k] = users[k]
    BY <1>2 DEF TypeOK
  <2>2. RowEarns(i)
    BY <1>2, <2>1 DEF RowEarns
  <2>3. ASSUME NEW k \in Ids \ {i} PROVE RowEarns(k)
    BY <2>1 DEF RowEarns
  <2>4. QED
    BY <2>2, <2>3
<1>3. ASSUME NEW table \in [Ids -> User \cup {NULL}],
             \A k \in Ids : table[k] = NULL \/ table[k] = users[k],
             NEW gone, NEW p, NEW a, Insert(table, gone, p, a)
      PROVE  \A k \in Ids : RowEarns(k)
  <2>1. PICK n \in Ids : users' = [table EXCEPT ![n] = NewUser(p, a)]
    BY <1>3 DEF Insert
  <2>2. /\ users'[n] = NewUser(p, a) /\ \A k \in Ids \ {n} : users'[k] = table[k]
        /\ NewUser(p, a).password_hash = NULL /\ NewUser(p, a).status = "pending_otp"
    BY <2>1 DEF NewUser
  <2>3. RowEarns(n)
    BY <2>2 DEF RowEarns
  <2>4. ASSUME NEW k \in Ids \ {n} PROVE RowEarns(k)
    BY <1>3, <2>2 DEF RowEarns
  <2>5. QED
    BY <2>3, <2>4
<1>4. ASSUME NEW w \in Workers, RegisterCreate(w) \/ RegisterInsert(w)
      PROVE  \A k \in Ids : RowEarns(k)
  <2>1. \/ UNCHANGED users
        \/ Insert(users, {}, req[w].phone, req[w].apartment)
    BY <1>4 DEF RegisterCreate, RegisterInsert, Unchanged
  <2>2. QED
    BY <1>1, <1>3, <2>1 DEF TypeOK
<1>5. ASSUME NEW w \in Workers, RegisterRestart(w)
      PROVE  \A k \in Ids : RowEarns(k)
  <2>1. \/ UNCHANGED users
        \/ Insert(RestartRows(w), {req[w].id}, req[w].phone, req[w].apartment)
    BY <1>5 DEF RegisterRestart, RestartRows, Unchanged
  <2>2. /\ RestartRows(w) \in [Ids -> User \cup {NULL}]
        /\ \A k \in Ids : RestartRows(w)[k] = NULL \/ RestartRows(w)[k] = users[k]
    BY DEF RestartRows, TypeOK
  <2>3. QED
    BY <1>1, <1>3, <2>1, <2>2
<1>6. ASSUME NEW w \in Workers, ConfirmCommit(w) PROVE \A k \in Ids : RowEarns(k)
  <2>1. PICK i \in Ids : i = req[w].id /\ pc[w] = "confirm"
    BY <1>6 DEF ConfirmCommit, TypeOK, HoldsId
  <2> DEFINE u == [users[i] EXCEPT !.status = "pending_approval"]
  <2>2. CASE users[i] # NULL
    <3>1. users[i] \in User
      BY <2>2 DEF TypeOK
    <3>2. u.password_hash = users[i].password_hash
      BY <3>1 DEF User
    <3>3. users' = [users EXCEPT ![i] = u]
      BY <1>6, <2>1, <2>2 DEF ConfirmCommit, Unchanged
    <3> HIDE DEF u
    <3>4. QED
      BY <1>2, <2>1, <2>2, <3>2, <3>3
  <2>3. CASE users[i] = NULL
    BY <1>1, <1>6, <2>1, <2>3 DEF ConfirmCommit, Unchanged
  <2>4. QED
    BY <2>2, <2>3
<1>7. ASSUME NEW w \in Workers, ApproveCommit(w) PROVE \A k \in Ids : RowEarns(k)
  <2>1. PICK i \in Ids : i = req[w].id /\ pc[w] = "approve"
    BY <1>7 DEF ApproveCommit, TypeOK, HoldsId
  <2> DEFINE u == [users[i] EXCEPT !.status = "approved", !.password_hash = "bcrypt"]
  <2>2. CASE users[i] # NULL
    <3>1. users[i] \in User
      BY <2>2 DEF TypeOK
    <3>2. u.status = "approved"
      BY <3>1 DEF User
    <3>3. users' = [users EXCEPT ![i] = u]
      BY <1>7, <2>1, <2>2 DEF ApproveCommit
    <3> HIDE DEF u
    <3>4. QED
      BY <1>2, <2>1, <2>2, <3>2, <3>3
  <2>3. CASE users[i] = NULL
    BY <1>1, <1>7, <2>1, <2>3 DEF ApproveCommit
  <2>4. QED
    BY <2>2, <2>3
<1>8. ASSUME NEW w \in Workers, NEW i \in Ids, RejectUser(w, i) PROVE \A k \in Ids : RowEarns(k)
  <2> DEFINE u == [users[i] EXCEPT !.status = "rejected"]
  <2>1. users[i] # NULL /\ users[i] \in User
    BY <1>8 DEF RejectUser, TypeOK
  <2>2. u.status = "rejected" /\ u.password_hash = users[i].password_hash
    BY <2>1 DEF User
  <2>3. users' = [users EXCEPT ![i] = u]
    BY <1>8 DEF RejectUser
  <2> HIDE DEF u
  <2>4. QED
    BY <1>2, <2>1, <2>2, <2>3
<1>9. ASSUME NEW w \in Workers, ToggleCommit(w) PROVE \A k \in Ids : RowEarns(k)
  <2>1. PICK i \in Ids : i = req[w].id
    BY <1>9 DEF ToggleCommit, TypeOK, HoldsId
  <2> DEFINE r == req[w]  new == ToggledStatus(r.active, r.status)
             b == IF r.active = r.is_active THEN users[i].is_active ELSE r.active
             s == IF new = r.status THEN users[i].status ELSE new
             u == [users[i] EXCEPT !.is_active = b, !.status = s]
  <2>2. CASE users[i] # NULL
    <3>1. users[i] \in User
      BY <2>2 DEF TypeOK
    <3>2. s # "pending_approval" \/ s = users[i].status
      BY DEF ToggledStatus
    <3>3. users' = [users EXCEPT ![i] = u]
      BY <1>9, <2>1, <2>2 DEF ToggleCommit
    <3> HIDE DEF b, s
    <3>4. u.status = s /\ u.password_hash = users[i].password_hash
      BY <3>1 DEF User
    <3> HIDE DEF u
    <3>5. QED
      BY <1>2, <2>1, <2>2, <3>2, <3>3, <3>4
  <2>3. CASE users[i] = NULL
    BY <1>1, <1>9, <2>1, <2>3 DEF ToggleCommit
  <2>4. QED
    BY <2>2, <2>3
<1>10. QED
  BY <1>1, <1>4, <1>5, <1>6, <1>7, <1>8, <1>9
  DEF Next, vars, Unchanged, RegisterSelect, RegisterApartment, RegisterCount, ConfirmSelect,
      ApproveSelect, ToggleSelect, CreateApartment, UpdateApartment, Abort

\* The same after the step.
TakenLater(p) == \E k \in DOMAIN accepts' : rows'[accepts'[k].log].key = p
ShownLater(i) == \E account \in reviewed' : account.id = i /\ account.phone = owner'[i]

\* An acceptance stays, and so does an approval of an id that has an owner.
LEMMA EarningsStay ==
  ASSUME TypeOK, RoutesTypeOK, [FlowNext]_avars
  PROVE  /\ \A p : Taken(p) => TakenLater(p)
         /\ \A i \in Ids : owner[i] # NULL => owner'[i] = owner[i]
         /\ \A i \in Ids : Shown(i) => ShownLater(i) /\ owner'[i] = owner[i]
<1>1. \A p : Taken(p) => TakenLater(p)
  BY AcceptancesStay DEF Taken, TakenLater
<1>2. \A i \in Ids : owner[i] # NULL => owner'[i] = owner[i]
  BY ResidentSteps, OwnersStay
<1>3. ASSUME NEW i \in Ids, Shown(i) PROVE ShownLater(i) /\ owner'[i] = owner[i]
  <2>1. PICK account \in reviewed : account.id = i /\ account.phone = owner[i]
    BY <1>3 DEF Shown
  <2>2. owner[i] # NULL
    BY <2>1, Held, ResidentsAssumption
  <2>3. account \in reviewed' /\ owner'[i] = owner[i]
    BY <1>2, <2>1, <2>2, HeldMoves
  <2>4. QED
    BY <2>1, <2>3 DEF ShownLater
<1>4. QED
  BY <1>1, <1>2, <1>3

\* A step of one worker leaves the others' look-ups alone.
LEMMA OthersLoadedStay ==
  ASSUME RoutesTypeOK, NEW w \in Workers, NEW v \in Workers, v # w, RouteStep(w)
  PROVE  loaded'[v] = loaded[v]
<1>1. loaded \in [Workers -> Nat]
  BY DEF RoutesTypeOK, Desk!TypeOK
<1>2. loaded' = loaded \/ \E i : loaded' = [loaded EXCEPT ![w] = i]
  BY DEF RouteStep, Register, RegisterGoes, RegisterOtp, ResendOtp, Verify, Verdict, ConfirmBegins,
         ConfirmEnds, ListPending, Approve, Reject, Toggle, AdminEnds, AdminApartment, Login,
         RouteAborts, desk, Desk!Issue, Desk!Load, Desk!Accept, Desk!Exhaust, Desk!Refuse
<1>3. QED
  BY <1>1, <1>2

\* What a handler that does not move may rely on stays.
LEMMA KnowsOwnerStays ==
  ASSUME TypeOK, RoutesTypeOK, [FlowNext]_avars, NEW w \in Workers, KnowsOwner(w),
         pc'[w] = pc[w], req'[w] = req[w], serving'[w] = serving[w], loaded'[w] = loaded[w]
  PROVE  KnowsOwner(w)'
<1>1. pc[w] = "approve" => TakenLater(owner'[req'[w].id]) /\ ShownLater(req'[w].id)
  BY EarningsStay DEF KnowsOwner, TypeOK, HoldsId
<1>2. pc[w] = "confirm" => owner'[req'[w].id] = serving'[w].phone
  <2>1. serving[w] # NULL => serving[w].phone # NULL
    BY Held, ResidentsAssumption
  <2>2. QED
    BY <2>1, EarningsStay DEF KnowsOwner, Serves, TypeOK, HoldsId
<1>3. Serves(w, "verify", "otp") => rows'[loaded'[w]].key = serving'[w].phone
  <2>1. \A i \in DOMAIN rows : rows'[i].key = rows[i].key
    BY DeskSteps, DeskKeeps DEF RoutesTypeOK
  <2>2. QED
    BY <2>1 DEF KnowsOwner, RoutesTypeOK, Desk!TypeOK
<1>4. Serves(w, "verify", "account") => TakenLater(serving'[w].phone)
  BY EarningsStay DEF KnowsOwner
<1>5. QED
  BY <1>1, <1>2, <1>3, <1>4 DEF KnowsOwner, Serves, Taken, TakenLater, Shown, ShownLater

\* What a handler that moves may rely on is what it has just learnt.
LEMMA KnowsOwnerMoves ==
  ASSUME TypeOK, RoutesTypeOK, IdInv, PageOfOwner, [FlowNext]_avars, NEW w \in Workers,
         KnowsOwner(w), RouteStep(w)
  PROVE  KnowsOwner(w)'
<1>b. \A i \in DOMAIN rows : rows'[i].key = rows[i].key
  BY DeskSteps, DeskKeeps DEF RoutesTypeOK
<1>c. /\ loaded \in [Workers -> Nat] /\ (loaded[w] # 0 => loaded[w] \in DOMAIN rows)
      /\ serving \in [Workers -> Serving \cup {NULL}]
  BY DEF RoutesTypeOK, Desk!TypeOK
<1>n. ASSUME pc'[w] \notin {"approve", "confirm"}, serving'[w] = NULL \/ serving'[w].kind = "register"
      PROVE  KnowsOwner(w)'
  BY <1>n DEF KnowsOwner, Serves
<1>1. ASSUME NEW p \in Phones, NEW a \in Apartments, Register(w, p, a) PROVE KnowsOwner(w)'
  <2>1. pc'[w] \in {"apartment", "restart"} /\ serving'[w].kind = "register"
    BY <1>1, <1>c DEF Register, RegisterSelect, Start, Serve, TypeOK
  <2>2. QED
    BY <1>n, <2>1
<1>2. CASE RegisterGoes(w)
  <2>1. serving[w] \in Serving /\ serving[w].kind = "register"
    BY <1>2, Held DEF RegisterGoes, Serves
  <2>2. UNCHANGED serving \/ Stage(w, "otp") \/ Done(w)
    BY <1>2 DEF RegisterGoes
  <2>3. serving'[w] = NULL \/ serving'[w].kind = "register"
    BY <1>c, <2>1, <2>2 DEF Stage, Done, Serving
  <2>4. pc'[w] \in {"create", "count", "insert", "idle"}
    BY <1>2 DEF RegisterGoes, RegisterApartment, RegisterCreate, RegisterCount, RegisterInsert,
                RegisterRestart, Return, TypeOK
  <2>5. QED
    BY <1>n, <2>3, <2>4
<1>3. CASE RegisterOtp(w)
  <2>1. Serves(w, "register", "otp") /\ UNCHANGED vars /\ serving'[w] = NULL
    BY <1>3, <1>c DEF RegisterOtp, Done
  <2>2. pc[w] # "confirm"
    BY <2>1 DEF KnowsOwner, Serves
  <2>3. pc[w] = "approve" => TakenLater(owner'[req'[w].id]) /\ ShownLater(req'[w].id)
    BY <2>1, EarningsStay DEF KnowsOwner, TypeOK, HoldsId, vars
  <2>4. QED
    BY <2>1, <2>2, <2>3 DEF KnowsOwner, Serves, vars, Taken, TakenLater, Shown, ShownLater
<1>4. ASSUME NEW p \in Phones, Verify(w, p) PROVE KnowsOwner(w)'
  <2>1. PICK i \in DOMAIN rows : rows[i].key = p /\ loaded' = [loaded EXCEPT ![w] = i]
    BY <1>4 DEF Verify, Desk!Load
  <2> DEFINE s == [kind |-> "verify", phone |-> p, stage |-> "otp"]
  <2>2. serving'[w] = s /\ pc'[w] = "idle"
    BY <1>4, <1>c DEF Verify, Serve, Idle, vars
  <2>3. loaded'[w] = i /\ rows'[i].key = p /\ i # 0
    BY <1>b, <1>c, <2>1 DEF RoutesTypeOK, Desk!TypeOK
  <2>4. QED
    BY <2>2, <2>3 DEF KnowsOwner, Serves
<1>5. CASE Verdict(w)
  <2>1. /\ serving[w] \in Serving /\ UNCHANGED vars /\ serving[w].kind = "verify"
        /\ serving[w].stage = "otp" /\ pc[w] # "confirm"
        /\ loaded[w] \in DOMAIN rows /\ rows[loaded[w]].key = serving[w].phone
    BY <1>5, <1>c, Held DEF Verdict, Serves, KnowsOwner
  <2>2. pc'[w] = "approve" => TakenLater(owner'[req'[w].id]) /\ ShownLater(req'[w].id)
    BY <2>1, EarningsStay DEF KnowsOwner, TypeOK, HoldsId, vars
  <2>3. CASE Desk!Accept(w) /\ Stage(w, "account")
    <3>1. serving'[w].stage = "account" /\ serving'[w].phone = serving[w].phone
      BY <1>c, <2>1, <2>3 DEF Stage, Serving
    <3>2. TakenLater(serving'[w].phone)
      <4> DEFINE a == [worker |-> w, log |-> loaded[w]]  n == Len(accepts)
      <4>1. accepts' = Append(accepts, a) /\ a.log = loaded[w]
        BY <2>3 DEF Desk!Accept
      <4>2. n \in Nat
        BY DEF RoutesTypeOK, Desk!TypeOK
      <4> HIDE DEF a
      <4>3. n + 1 \in DOMAIN accepts' /\ accepts'[n + 1] = a
        BY <4>1, <4>2, FlowTypingStep DEF RoutesTypeOK, Desk!TypeOK
      <4> HIDE DEF n
      <4>4. rows'[accepts'[n + 1].log].key = serving'[w].phone
        BY <1>b, <2>1, <3>1, <4>1, <4>3
      <4>5. QED
        BY <4>3, <4>4 DEF TakenLater
    <3>3. QED
      BY <2>1, <2>2, <3>1, <3>2 DEF KnowsOwner, Serves, vars, Taken, TakenLater, Shown, ShownLater
  <2>4. CASE Done(w)
    <3>1. serving'[w] = NULL
      BY <1>c, <2>4 DEF Done
    <3>2. QED
      BY <2>1, <2>2, <3>1 DEF KnowsOwner, Serves, vars, Taken, TakenLater, Shown, ShownLater
  <2>5. QED
    BY <1>5, <2>3, <2>4 DEF Verdict
<1>6. CASE ConfirmBegins(w)
  <2>1. /\ Serves(w, "verify", "account") /\ pc[w] = "idle" /\ Taken(serving[w].phone)
        /\ UNCHANGED desk
    BY <1>6 DEF ConfirmBegins, KnowsOwner
  <2>2. CASE ConfirmSelect(w, serving[w].phone) /\ UNCHANGED serving
    <3>1. PICK i \in Ids :
            /\ HasPhone(users, i, serving[w].phone)
            /\ Start(w, "confirm", [NoRequest EXCEPT !.phone = serving[w].phone, !.id = i])
            /\ Unchanged
      BY <2>2 DEF ConfirmSelect
    <3>2. pc'[w] = "confirm" /\ req'[w].id = i
      BY <3>1 DEF Start, NoRequest, TypeOK
    <3>3. owner'[i] = serving[w].phone
      BY <3>1 DEF Unchanged, HasPhone, IdInv, IdKeepsPhone
    <3>4. TakenLater(serving[w].phone)
      BY <2>1, EarningsStay
    <3>5. QED
      BY <2>1, <2>2, <3>2, <3>3, <3>4 DEF KnowsOwner, Serves, Taken, TakenLater
  <2>3. CASE Done(w) /\ UNCHANGED vars
    BY <1>n, <1>c, <2>1, <2>3 DEF Done, vars
  <2>4. QED
    BY <1>6, <2>2, <2>3 DEF ConfirmBegins
<1>7. CASE ConfirmEnds(w)
  BY <1>n, <1>c, <1>7 DEF ConfirmEnds, ConfirmCommit, Return, Done, TypeOK
<1>8. ASSUME NEW shown \in page, Approve(w, shown) PROVE KnowsOwner(w)'
  <2>1. PICK i \in Ids : i = shown.id
    BY Held
  <2>2. pc'[w] = "approve" /\ req'[w].id = i /\ owner' = owner
    BY <1>8, <2>1 DEF Approve, ApproveSelect, Start, NoRequest, TypeOK, Unchanged
  <2>3. owner[i] = shown.phone /\ Taken(owner[i]) /\ shown \in reviewed' /\ serving'[w] = NULL
    BY <1>8, <2>1 DEF Approve, PageOfOwner, Idle
  <2>4. TakenLater(owner'[i]) /\ ShownLater(i)
    BY <2>1, <2>2, <2>3, EarningsStay DEF ShownLater
  <2>5. QED
    BY <2>2, <2>3, <2>4 DEF KnowsOwner, Serves, Taken, TakenLater, Shown, ShownLater
<1>9. CASE \/ \E shown \in page : Reject(w, shown)
           \/ \E i \in Ids, active \in BOOLEAN : Toggle(w, i, active)
           \/ \E a \in Apartments : AdminApartment(w, a)
  <2>1. serving'[w] = NULL
    BY <1>9 DEF Reject, Toggle, AdminApartment, Idle, flow
  <2>2. pc'[w] \in {"idle", "toggle"}
    BY <1>9 DEF Reject, Toggle, AdminApartment, Idle, RejectUser, ToggleSelect, Start, CreateApartment,
                UpdateApartment, TypeOK
  <2>3. QED
    BY <1>n, <2>1, <2>2
<1>10. CASE AdminEnds(w)
  <2>1. pc'[w] = "idle" /\ UNCHANGED <<desk, serving>>
    BY <1>10 DEF AdminEnds, ApproveCommit, ToggleCommit, Return, TypeOK, flow
  <2>2. Serves(w, "verify", "account") => TakenLater(serving[w].phone)
    BY EarningsStay DEF KnowsOwner
  <2>3. QED
    BY <2>1, <2>2 DEF KnowsOwner, Serves, desk, Taken, TakenLater
<1>11. CASE RouteAborts(w)
  <2>1. pc'[w] = "idle" /\ serving'[w] = NULL
    BY <1>11, <1>c DEF RouteAborts, Abort, Return, Done, TypeOK, vars
  <2>2. QED
    BY <1>n, <2>1
<1>12. CASE \/ ListPending(w)
            \/ \E p \in Phones : ResendOtp(w, p)
            \/ \E i \in Ids : Login(w, i)
  <2>1. /\ UNCHANGED <<vars, serving>> /\ loaded' = loaded
    BY <1>12 DEF ListPending, ResendOtp, Login, Desk!Issue, desk, flow
  <2>2. QED
    BY <2>1, KnowsOwnerStays DEF vars
<1>13. QED
  BY <1>1, <1>2, <1>3, <1>4, <1>5, <1>6, <1>7, <1>8, <1>9, <1>10, <1>11, <1>12 DEF RouteStep

LEMMA OwnerStep ==
  ASSUME TypeOK, RoutesTypeOK, IdInv, OwnerInv, [FlowNext]_avars
  PROVE  OwnerInv'
<1> USE DEF OwnerInv
<1>1. [Next]_vars
  BY ResidentSteps
<1>2. \A i \in Ids : users[i] # NULL => users[i].phone = owner[i] /\ owner[i] \in Phones
  BY DEF IdInv, IdKeepsPhone, TypeOK, User
<1>3. IdKeepsPhone'
  BY <1>1, IdStep DEF IdInv
<1>4. ASSUME NEW v \in Workers PROVE KnowsOwner(v)'
  <2>1. CASE RouteStep(v)
    BY <2>1, KnowsOwnerMoves
  <2>2. ASSUME NEW w \in Workers, w # v, RouteStep(w) PROVE KnowsOwner(v)'
    BY <2>2, OthersKeep, OthersLoadedStay, KnowsOwnerStays
  <2>3. CASE (\E p \in Phones : ReEnterDetails(p)) \/ UNCHANGED avars
    BY <2>3, KnowsOwnerStays DEF ReEnterDetails, avars, vars, desk, flow
  <2>4. QED
    BY <2>1, <2>2, <2>3 DEF FlowNext
<1>5. RowsEarned'
  <2> SUFFICES ASSUME NEW i \in Ids, users'[i] # NULL
               PROVE  /\ users'[i].status = "pending_approval" => TakenLater(owner'[i])
                      /\ users'[i].password_hash # NULL => TakenLater(owner'[i]) /\ ShownLater(i)
    BY DEF RowsEarned, Taken, TakenLater, Shown, ShownLater
  <2>1. RowEarns(i)
    BY <1>1, RowsEarn
  <2>2. ASSUME Taken(owner[i]), owner[i] # NULL PROVE TakenLater(owner'[i])
    BY <2>2, EarningsStay
  <2>3. ASSUME users'[i].status = "pending_approval" PROVE TakenLater(owner'[i])
    <3>1. CASE users[i] # NULL /\ users[i].status = "pending_approval"
      BY <1>2, <2>2, <3>1, ResidentsAssumption DEF RowsEarned
    <3>2. ASSUME NEW w \in Workers, pc[w] = "confirm", req[w].id = i PROVE TakenLater(owner'[i])
      <4>1. owner[i] = serving[w].phone /\ owner[i] \in Phones /\ Taken(owner[i])
        BY <3>2, Held DEF KnowsOwner, Serves
      <4>2. QED
        BY <2>2, <4>1, ResidentsAssumption
    <3>3. QED
      BY <2>1, <2>3, <3>1, <3>2 DEF RowEarns
  <2>4. ASSUME users'[i].password_hash # NULL PROVE TakenLater(owner'[i]) /\ ShownLater(i)
    <3>1. Taken(owner[i]) /\ Shown(i)
      BY <2>1, <2>4 DEF RowEarns, RowsEarned, KnowsOwner
    <3>2. QED
      BY <3>1, EarningsStay
  <2>5. QED
    BY <2>3, <2>4
<1>6. PageOfOwner'
  <2> SUFFICES ASSUME NEW held \in page' PROVE owner'[held.id] = held.phone /\ TakenLater(held.phone)
    BY DEF PageOfOwner, Taken, TakenLater
  <2>1. CASE held \in page
    BY <2>1, Held, EarningsStay, ResidentsAssumption DEF PageOfOwner
  <2>2. CASE held \notin page
    <3>1. PICK i \in Ids : /\ users[i] # NULL /\ users[i].status = "pending_approval"
                           /\ held = AccountOf(i) /\ UNCHANGED vars
      BY <2>2, HeldMoves
    <3>2. held.id = i /\ held.phone = owner[i] /\ Taken(owner[i]) /\ owner' = owner
      BY <1>2, <3>1 DEF AccountOf, RowsEarned, vars
    <3>3. QED
      BY <3>2, EarningsStay
  <2>3. QED
    BY <2>1, <2>2
<1>7. TokensOfOwner'
  <2> SUFFICES ASSUME NEW held \in tokens'
               PROVE  owner'[held.id] = held.phone /\ TakenLater(held.phone) /\ ShownLater(held.id)
    BY DEF TokensOfOwner, Taken, TakenLater, Shown, ShownLater
  <2>1. CASE held \in tokens
    BY <2>1, Held, EarningsStay DEF TokensOfOwner
  <2>2. CASE held \notin tokens
    <3>1. PICK i \in Ids : MayLogIn(i) /\ held = AccountOf(i) /\ UNCHANGED vars
      BY <2>2, HeldMoves
    <3>2. held.id = i /\ held.phone = owner[i] /\ Taken(owner[i]) /\ Shown(i) /\ owner' = owner
      BY <1>2, <3>1 DEF AccountOf, MayLogIn, RowsEarned, vars
    <3>3. QED
      BY <3>2, EarningsStay
  <2>3. QED
    BY <2>1, <2>2
<1>8. QED
  BY <1>4, <1>5, <1>6, <1>7

\* However many workers there are, whoever holds a token for an id is the phone that id was
\* first given to, that phone took an OTP, and an administrator approved the id shown with it.
THEOREM TokensAreOwners == FlowSpec => []TokensOfOwner
<1>1. FlowInit => OwnerInv
  BY DEF FlowInit, Init, OwnerInv, TokensOfOwner, PageOfOwner, RowsEarned, KnowsOwner, Serves
<1>2. TypeOK /\ RoutesTypeOK /\ IdInv /\ OwnerInv /\ [FlowNext]_avars => OwnerInv'
  BY OwnerStep
<1>3. OwnerInv => TokensOfOwner
  BY DEF OwnerInv
<1>4. QED
  BY <1>1, <1>2, <1>3, FlowInvariant, Underneath, IdInvariant, PTL DEF FlowSpec, avars
=============================================================================
