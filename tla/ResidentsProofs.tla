---------------------------- MODULE ResidentsProofs ----------------------------
(***************************************************************************)
(* Proofs about Residents: types, one account per phone and the stability  *)
(* of user ids for any number of workers; what the phone check and the     *)
(* status columns promise when a single worker runs the handlers.          *)
(***************************************************************************)
EXTENDS Residents, FiniteSetTheorems, TLAPS

USE ResidentsAssumption

\* The rows a step may write are users.
LEMMA RowTypes ==
  ASSUME NEW p \in Phones, NEW a \in Apartments
  PROVE  NewUser(p, a) \in User /\ NewUser(p, a).phone = p
BY DEF NewUser, User, UserStatus

LEMMA EditTypes ==
  ASSUME NEW u \in User, NEW s \in UserStatus, NEW b \in BOOLEAN
  PROVE  /\ [u EXCEPT !.status = s] \in User
         /\ [u EXCEPT !.status = s, !.password_hash = "bcrypt"] \in User
         /\ [u EXCEPT !.is_active = b, !.status = s] \in User
         /\ [u EXCEPT !.status = s].phone = u.phone
         /\ [u EXCEPT !.status = s, !.password_hash = "bcrypt"].phone = u.phone
         /\ [u EXCEPT !.is_active = b, !.status = s].phone = u.phone
BY DEF User

\* How a step changes the table: an edit of one row that keeps its phone, ...
Edits(i) ==
    /\ users[i] # NULL
    /\ \E u \in User : u.phone = users[i].phone /\ users' = [users EXCEPT ![i] = u]
    /\ owner' = owner

\* ... or one new row for phone p under the next id of the rows left.
Inserts(rows, n, p) ==
    /\ p \in Phones
    /\ NextId(rows, n)
    /\ PhoneUnique(rows, p)
    /\ \E a \in Apartments : users' = [rows EXCEPT ![n] = NewUser(p, a)]
    /\ owner' = [owner EXCEPT ![n] = IF owner[n] = NULL THEN p ELSE owner[n]]

RestartRows(w) == [users EXCEPT ![req[w].id] = NULL]

LEMMA InsertInserts ==
  ASSUME NEW rows, NEW gone, NEW p \in Phones, NEW a \in Apartments,
         PhoneUnique(rows, p), Insert(rows, gone, p, a)
  PROVE  \E n \in Ids : Inserts(rows, n, p)
BY DEF Insert, Inserts

LEMMA UserSteps ==
  ASSUME TypeOK, [Next]_vars
  PROVE  \/ users' = users /\ owner' = owner
         \/ \E i \in Ids : Edits(i)
         \/ \E n \in Ids, p \in Phones : Inserts(users, n, p)
         \/ \E w \in Workers, n \in Ids :
               pc[w] = "restart" /\ Inserts(RestartRows(w), n, req[w].phone)
<1> DEFINE Goal == \/ users' = users /\ owner' = owner
                   \/ \E i \in Ids : Edits(i)
                   \/ \E n \in Ids, p \in Phones : Inserts(users, n, p)
                   \/ \E w \in Workers, n \in Ids :
                         pc[w] = "restart" /\ Inserts(RestartRows(w), n, req[w].phone)
<1>e. ASSUME NEW i \in Ids, users[i] # NULL, NEW u \in User, u.phone = users[i].phone,
             users' = [users EXCEPT ![i] = u], owner' = owner
      PROVE  Goal
  BY <1>e DEF Edits
<1>1. ASSUME NEW w \in Workers, RegisterCreate(w) \/ RegisterInsert(w)
      PROVE  Goal
  <2>1. req[w].phone \in Phones /\ req[w].apartment \in Apartments
    BY <1>1 DEF RegisterCreate, RegisterInsert, TypeOK, Registering
  <2>2. \/ users' = users /\ owner' = owner
        \/ /\ PhoneUnique(users, req[w].phone)
           /\ Insert(users, {}, req[w].phone, req[w].apartment)
    BY <1>1 DEF RegisterCreate, RegisterInsert, Unchanged
  <2>3. QED
    BY <2>1, <2>2, InsertInserts
<1>2. ASSUME NEW w \in Workers, RegisterRestart(w)
      PROVE  Goal
  <2>1. req[w].phone \in Phones /\ req[w].apartment \in Apartments /\ pc[w] = "restart"
    BY <1>2 DEF RegisterRestart, TypeOK, Registering
  <2>2. \/ users' = users /\ owner' = owner
        \/ /\ PhoneUnique(RestartRows(w), req[w].phone)
           /\ Insert(RestartRows(w), {req[w].id}, req[w].phone, req[w].apartment)
    BY <1>2 DEF RegisterRestart, RestartRows, Unchanged
  <2>3. QED
    BY <2>1, <2>2, InsertInserts
<1>3. ASSUME NEW w \in Workers, ConfirmCommit(w)
      PROVE  Goal
  <2> DEFINE i == req[w].id  u == [users[i] EXCEPT !.status = "pending_approval"]
  <2>1. i \in Ids /\ (users[i] # NULL => users[i] \in User)
    BY <1>3 DEF ConfirmCommit, TypeOK, HoldsId
  <2>2. CASE users[i] = NULL
    BY <1>3, <2>2 DEF ConfirmCommit, Unchanged
  <2>3. CASE users[i] # NULL
    <3>1. u \in User /\ u.phone = users[i].phone
      BY <2>1, <2>3, EditTypes DEF UserStatus
    <3>2. users' = [users EXCEPT ![i] = u] /\ owner' = owner
      BY <1>3, <2>3 DEF ConfirmCommit, Unchanged
    <3>3. QED
      BY <1>e, <2>1, <2>3, <3>1, <3>2
  <2>4. QED
    BY <2>2, <2>3
<1>4. ASSUME NEW w \in Workers, ApproveCommit(w)
      PROVE  Goal
  <2> DEFINE i == req[w].id
             u == [users[i] EXCEPT !.status = "approved", !.password_hash = "bcrypt"]
  <2>1. i \in Ids /\ (users[i] # NULL => users[i] \in User)
    BY <1>4 DEF ApproveCommit, TypeOK, HoldsId
  <2>2. CASE users[i] = NULL
    BY <1>4, <2>2 DEF ApproveCommit
  <2>3. CASE users[i] # NULL
    <3>1. u \in User /\ u.phone = users[i].phone
      BY <2>1, <2>3, EditTypes DEF UserStatus
    <3>2. users' = [users EXCEPT ![i] = u] /\ owner' = owner
      BY <1>4, <2>3 DEF ApproveCommit
    <3>3. QED
      BY <1>e, <2>1, <2>3, <3>1, <3>2
  <2>4. QED
    BY <2>2, <2>3
<1>5. ASSUME NEW w \in Workers, NEW i \in Ids, RejectUser(w, i)
      PROVE  Goal
  <2> DEFINE u == [users[i] EXCEPT !.status = "rejected"]
  <2>1. users[i] # NULL /\ users[i] \in User
    BY <1>5 DEF RejectUser, TypeOK
  <2>2. u \in User /\ u.phone = users[i].phone
    BY <2>1, EditTypes DEF UserStatus
  <2>3. users' = [users EXCEPT ![i] = u] /\ owner' = owner
    BY <1>5 DEF RejectUser
  <2>4. QED
    BY <1>e, <2>1, <2>2, <2>3
<1>6. ASSUME NEW w \in Workers, ToggleCommit(w)
      PROVE  Goal
  <2> DEFINE r == req[w]  i == r.id  new == ToggledStatus(r.active, r.status)
             b == IF r.active = r.is_active THEN users[i].is_active ELSE r.active
             s == IF new = r.status THEN users[i].status ELSE new
             u == [users[i] EXCEPT !.is_active = b, !.status = s]
  <2>1. i \in Ids /\ (users[i] # NULL => users[i] \in User)
    BY <1>6 DEF ToggleCommit, TypeOK, HoldsId
  <2>2. CASE users[i] = NULL
    BY <1>6, <2>2 DEF ToggleCommit
  <2>3. CASE users[i] # NULL
    <3>1. r \in Request
      BY DEF TypeOK
    <3>2. r.active \in BOOLEAN /\ new \in UserStatus
      BY <3>1 DEF Request, ToggledStatus, UserStatus
    <3>3. b \in BOOLEAN /\ s \in UserStatus
      BY <2>1, <2>3, <3>2 DEF User
    <3>4. u \in User /\ u.phone = users[i].phone
      <4> HIDE DEF b, s
      <4>1. QED
        BY <2>1, <2>3, <3>3, EditTypes
    <3>5. users' = [users EXCEPT ![i] = u] /\ owner' = owner
      BY <1>6, <2>3 DEF ToggleCommit
    <3>6. QED
      BY <1>e, <2>1, <2>3, <3>4, <3>5
  <2>4. QED
    BY <2>2, <2>3
<1>7. CASE UNCHANGED <<users, owner>>
  BY <1>7
<1>8. QED
  BY <1>1, <1>2, <1>3, <1>4, <1>5, <1>6, <1>7
  DEF Next, vars, Unchanged, RegisterSelect, RegisterApartment, RegisterCount, ConfirmSelect,
      ApproveSelect, ToggleSelect, CreateApartment, UpdateApartment, Abort

LEMMA InitTypes == Init => TypeOK
<1>1. NoRequest \in Request
  BY DEF NoRequest, Request, UserStatus
<1>2. [limit : VoterLimits, is_active : {TRUE}] \subseteq Apartment
  BY DEF Apartment
<1>3. Init => apartments \in [Apartments -> Apartment \cup {NULL}]
  BY <1>2 DEF Init
<1>4. QED
  BY <1>1, <1>3 DEF Init, TypeOK, Registering, HoldsId

LEMMA TypingStep ==
  ASSUME TypeOK, [Next]_vars
  PROVE  TypeOK'
<1> DEFINE Control ==
      /\ pc' \in [Workers -> {"idle"} \cup Registering \cup HoldsId]
      /\ req' \in [Workers -> Request]
      /\ \A w \in Workers :
            /\ pc'[w] \in Registering =>
                  req'[w].phone \in Phones /\ req'[w].apartment \in Apartments
            /\ pc'[w] \in HoldsId => req'[w].id \in Ids
<1>1. users' \in [Ids -> User \cup {NULL}] /\ owner' \in [Ids -> Phones \cup {NULL}]
  <2>1. ASSUME NEW rows \in [Ids -> User \cup {NULL}], NEW n \in Ids, NEW p \in Phones,
               Inserts(rows, n, p)
        PROVE  users' \in [Ids -> User \cup {NULL}] /\ owner' \in [Ids -> Phones \cup {NULL}]
    BY <2>1, RowTypes DEF Inserts, TypeOK
  <2>2. \A w \in Workers : RestartRows(w) \in [Ids -> User \cup {NULL}]
    BY DEF RestartRows, TypeOK
  <2>3. \A w \in Workers : pc[w] = "restart" => req[w].phone \in Phones
    BY DEF TypeOK, Registering
  <2>4. ASSUME NEW i \in Ids, Edits(i)
        PROVE  users' \in [Ids -> User \cup {NULL}] /\ owner' \in [Ids -> Phones \cup {NULL}]
    BY <2>4 DEF Edits, TypeOK
  <2>5. users \in [Ids -> User \cup {NULL}] /\ owner \in [Ids -> Phones \cup {NULL}]
    BY DEF TypeOK
  <2>6. QED
    BY <2>1, <2>2, <2>3, <2>4, <2>5, UserSteps
<1>2. apartments' \in [Apartments -> Apartment \cup {NULL}]
  <2>1. NewApartment \in Apartment
    BY DEF NewApartment, Apartment
  <2>2. ASSUME NEW w \in Workers, RegisterCreate(w) \/ RegisterRestart(w)
        PROVE  apartments' \in [Apartments -> Apartment \cup {NULL}]
    BY <2>1, <2>2 DEF RegisterCreate, RegisterRestart, TypeOK
  <2>3. ASSUME NEW w \in Workers, NEW a \in Apartments, NEW limit \in VoterLimits,
               NEW is_active \in BOOLEAN,
               CreateApartment(w, a, limit) \/ UpdateApartment(w, a, limit, is_active)
        PROVE  apartments' \in [Apartments -> Apartment \cup {NULL}]
    <3>1. [limit |-> limit, is_active |-> TRUE] \in Apartment
      BY DEF Apartment
    <3>2. [limit |-> limit, is_active |-> is_active] \in Apartment
      BY DEF Apartment
    <3>3. ASSUME apartments[a] # NULL
          PROVE  /\ [apartments[a] EXCEPT !.limit = limit] \in Apartment
                 /\ [apartments[a] EXCEPT !.is_active = is_active] \in Apartment
      <4>1. apartments[a] \in Apartment
        BY <3>3 DEF TypeOK
      <4>2. QED
        BY <4>1 DEF Apartment
    <3>4. ASSUME NEW row \in Apartment, apartments' = [apartments EXCEPT ![a] = row]
          PROVE  apartments' \in [Apartments -> Apartment \cup {NULL}]
      BY <3>4 DEF TypeOK
    <3>5. QED
      BY <2>3, <3>1, <3>2, <3>3, <3>4 DEF CreateApartment, UpdateApartment
  <2>4. CASE apartments' = apartments
    BY <2>4 DEF TypeOK
  <2>5. QED
    BY <2>2, <2>3, <2>4
    DEF Next, vars, Unchanged, RegisterSelect, RegisterApartment, RegisterCount,
        RegisterInsert, ConfirmSelect, ConfirmCommit, ApproveSelect, ApproveCommit,
        RejectUser, ToggleSelect, ToggleCommit, Abort
<1>3. verified' \subseteq Ids
  <2>1. ASSUME NEW w \in Workers, ConfirmCommit(w) PROVE verified' \subseteq Ids
    BY <2>1 DEF ConfirmCommit, TypeOK, HoldsId, Unchanged
  <2>2. CASE verified' \subseteq verified
    BY <2>2 DEF TypeOK
  <2>3. QED
    BY <2>1, <2>2
    DEF Next, vars, Unchanged, Insert, RegisterSelect, RegisterApartment, RegisterCreate,
        RegisterCount, RegisterInsert, RegisterRestart, ConfirmSelect, ApproveSelect,
        ApproveCommit, RejectUser, ToggleSelect, ToggleCommit, CreateApartment,
        UpdateApartment, Abort
<1>4. Control
  <2>m. ASSUME NEW w \in Workers, NEW label \in {"idle"} \cup Registering \cup HoldsId,
               NEW r \in Request,
               pc' = [pc EXCEPT ![w] = label], req' = [req EXCEPT ![w] = r],
               label \in Registering => r.phone \in Phones /\ r.apartment \in Apartments,
               label \in HoldsId => r.id \in Ids
        PROVE  Control
    BY <2>m DEF TypeOK
  <2>n. NoRequest \in Request
    BY DEF NoRequest, Request, UserStatus
  <2>0. ASSUME NEW w \in Workers, Return(w)
        PROVE  Control
    BY <2>m, <2>n, <2>0 DEF Return, Registering, HoldsId
  <2>1. ASSUME NEW w \in Workers, NEW p \in Phones, NEW a \in Apartments,
               RegisterSelect(w, p, a)
        PROVE  Control
    <3>1. ASSUME NEW i \in Ids, Start(w, "restart",
                 [NoRequest EXCEPT !.phone = p, !.apartment = a, !.id = i])
          PROVE  Control
      <4> DEFINE r == [NoRequest EXCEPT !.phone = p, !.apartment = a, !.id = i]
      <4>1. r \in Request /\ r.phone = p /\ r.apartment = a /\ r.id = i
        BY DEF NoRequest, Request, UserStatus
      <4>2. pc' = [pc EXCEPT ![w] = "restart"] /\ req' = [req EXCEPT ![w] = r]
        BY <3>1 DEF Start
      <4> HIDE DEF r
      <4>3. QED
        BY <2>m, <4>1, <4>2 DEF Registering, HoldsId
    <3>2. CASE Start(w, "apartment", [NoRequest EXCEPT !.phone = p, !.apartment = a])
      <4> DEFINE r == [NoRequest EXCEPT !.phone = p, !.apartment = a]
      <4>1. r \in Request /\ r.phone = p /\ r.apartment = a
        BY DEF NoRequest, Request, UserStatus
      <4>2. pc' = [pc EXCEPT ![w] = "apartment"] /\ req' = [req EXCEPT ![w] = r]
        BY <3>2 DEF Start
      <4> HIDE DEF r
      <4>3. QED
        BY <2>m, <4>1, <4>2 DEF Registering, HoldsId
    <3>3. QED
      BY <2>1, <3>1, <3>2 DEF RegisterSelect
  <2>2. ASSUME NEW w \in Workers, NEW i \in Ids, NEW label \in HoldsId \ {"restart"},
               NEW r \in Request, r.id = i, Start(w, label, r)
        PROVE  Control
    BY <2>m, <2>2 DEF Start, Registering, HoldsId
  <2>3. ASSUME NEW w \in Workers, NEW i \in Ids,
               \/ \E p \in Phones : Start(w, "confirm", [NoRequest EXCEPT !.phone = p, !.id = i])
               \/ Start(w, "approve", [NoRequest EXCEPT !.id = i])
        PROVE  Control
    <3>1. \A p \in Phones : /\ [NoRequest EXCEPT !.phone = p, !.id = i] \in Request
                            /\ [NoRequest EXCEPT !.phone = p, !.id = i].id = i
      BY DEF NoRequest, Request, UserStatus
    <3>2. [NoRequest EXCEPT !.id = i] \in Request /\ [NoRequest EXCEPT !.id = i].id = i
      BY DEF NoRequest, Request, UserStatus
    <3>3. QED
      BY <2>2, <2>3, <3>1, <3>2 DEF HoldsId
  <2>4. ASSUME NEW w \in Workers, NEW i \in Ids, NEW active \in BOOLEAN,
               ToggleSelect(w, i, active)
        PROVE  Control
    <3> DEFINE r == [NoRequest EXCEPT !.id = i, !.active = active,
                        !.status = users[i].status, !.is_active = users[i].is_active]
    <3>1. users[i] \in User
      BY <2>4 DEF ToggleSelect, TypeOK
    <3>2. users[i].status \in UserStatus /\ users[i].is_active \in BOOLEAN
      BY <3>1 DEF User
    <3>3. r \in Request /\ r.id = i
      BY <3>2 DEF NoRequest, Request
    <3>4. Start(w, "toggle", r)
      BY <2>4 DEF ToggleSelect
    <3> HIDE DEF r
    <3>5. QED
      BY <2>2, <3>3, <3>4 DEF HoldsId
  <2>5. ASSUME NEW w \in Workers, RegisterApartment(w)
        PROVE  Control
    <3>1. req[w] \in Request /\ req[w].phone \in Phones /\ req[w].apartment \in Apartments
      BY <2>5 DEF RegisterApartment, TypeOK, Registering
    <3>2. CASE pc' = [pc EXCEPT ![w] = "create"] /\ req' = req
      BY <3>1, <3>2 DEF TypeOK, Registering, HoldsId
    <3>3. CASE /\ apartments[req[w].apartment] # NULL
               /\ pc' = [pc EXCEPT ![w] = "count"]
               /\ req' = [req EXCEPT ![w] =
                      [req[w] EXCEPT !.limit = apartments[req[w].apartment].limit]]
      <4> DEFINE r == [req[w] EXCEPT !.limit = apartments[req[w].apartment].limit]
      <4>1. apartments[req[w].apartment] \in Apartment
        BY <3>1, <3>3 DEF TypeOK
      <4>2. r \in Request /\ r.phone = req[w].phone /\ r.apartment = req[w].apartment
        BY <3>1, <4>1 DEF Apartment, Request
      <4> HIDE DEF r
      <4>3. QED
        BY <2>m, <3>1, <3>3, <4>2 DEF r, Registering, HoldsId
    <3>4. QED
      BY <2>0, <2>5, <3>2, <3>3 DEF RegisterApartment
  <2>6. ASSUME NEW w \in Workers, RegisterCount(w)
        PROVE  Control
    <3>1. CASE pc[w] = "count" /\ pc' = [pc EXCEPT ![w] = "insert"] /\ req' = req
      BY <3>1 DEF TypeOK, Registering, HoldsId
    <3>2. QED
      BY <2>0, <2>6, <3>1 DEF RegisterCount
  <2>7. CASE UNCHANGED <<pc, req>>
    BY <2>7 DEF TypeOK
  <2>8. QED
    <3> HIDE DEF Control
    <3>1. QED
      BY <2>0, <2>1, <2>3, <2>4, <2>5, <2>6, <2>7
      DEF Next, vars, RegisterCreate, RegisterInsert, RegisterRestart, ConfirmSelect,
          ConfirmCommit, ApproveSelect, ApproveCommit, RejectUser, ToggleCommit,
          CreateApartment, UpdateApartment, Abort
<1>5. QED
  BY <1>1, <1>2, <1>3, <1>4 DEF TypeOK

\* The type invariant of Residents.
THEOREM Typing == Spec => []TypeOK
<1>1. TypeOK /\ [Next]_vars => TypeOK'
  BY TypingStep
<1>2. QED
  BY <1>1, InitTypes, PTL DEF Spec

-----------------------------------------------------------------------------
(* User ids *)

\* Why ids are stable: ids are given in order of the highest one (AboveUsed), the row
\* below the highest is always there, so that deleting the highest makes its own id the
\* next (TopFollows), and a handler that deletes a row does so for that row's phone.
AboveUsed == \A i \in Ids : owner[i] # NULL => \E j \in Ids : i <= j /\ users[j] # NULL

TopFollows == \A i \in Ids :
    users[i] # NULL /\ i > 1 /\ (\A j \in Ids : users[j] # NULL => j <= i) => users[i - 1] # NULL

RestartsOwn == \A w \in Workers : pc[w] = "restart" => owner[req[w].id] = req[w].phone

IdInv == OneAccountPerPhone /\ IdKeepsPhone /\ AboveUsed /\ TopFollows /\ RestartsOwn

\* The next id has no owner, or it is the one just freed.
LEMMA InsertKeeps ==
  ASSUME TypeOK, IdInv, NEW i \in Ids \cup {0}, NEW rows, NEW n \in Ids, NEW p \in Phones,
         rows = [k \in Ids |-> IF k = i THEN NULL ELSE users[k]],
         i \in Ids => owner[i] = p,
         Inserts(rows, n, p)
  PROVE  /\ OneAccountPerPhone' /\ IdKeepsPhone' /\ AboveUsed' /\ TopFollows'
         /\ \A k \in Ids : owner[k] # NULL => owner'[k] = owner[k]
<1>t. /\ users \in [Ids -> User \cup {NULL}] /\ owner \in [Ids -> Phones \cup {NULL}]
      /\ MaxId \in Nat /\ \A q \in Phones : q # NULL
  BY DEF TypeOK
<1>1. PICK a \in Apartments : users' = [rows EXCEPT ![n] = NewUser(p, a)]
  BY DEF Inserts
<1> DEFINE new == NewUser(p, a)
<1>2. new \in User /\ new.phone = p /\ new # NULL
  BY RowTypes
<1> HIDE DEF new
<1>3. \A k \in Ids : users'[k] = IF k = n THEN new ELSE IF k = i THEN NULL ELSE users[k]
  BY <1>1 DEF new
<1>4. /\ n > 1 => rows[n - 1] # NULL
      /\ \A k \in Ids : rows[k] # NULL => k < n
      /\ \A k \in Ids : ~HasPhone(rows, k, p)
  BY DEF Inserts, NextId, PhoneUnique, PhoneFree
<1>5. /\ n > 1 => n - 1 # i /\ users[n - 1] # NULL
      /\ \A k \in Ids : k # i /\ users[k] # NULL => k < n /\ users[k].phone # p
  BY <1>4 DEF HasPhone, Ids
<1>6. owner' = [owner EXCEPT ![n] = IF owner[n] = NULL THEN p ELSE owner[n]]
  BY DEF Inserts
<1>7. owner[n] = NULL \/ n = i
  <2> SUFFICES ASSUME owner[n] # NULL, n # i PROVE FALSE
    OBVIOUS
  <2>1. PICK j \in Ids : n <= j /\ users[j] # NULL
    BY DEF IdInv, AboveUsed
  <2>2. j = i
    BY <1>5, <2>1 DEF Ids
  <2>3. n < i /\ i > 1 /\ \A k \in Ids : users[k] # NULL => k <= i
    BY <1>5, <2>1, <2>2 DEF Ids
  <2>4. users[i - 1] # NULL /\ i - 1 \in Ids
    BY <2>1, <2>2, <2>3 DEF IdInv, TopFollows, Ids
  <2>5. i - 1 < n
    BY <1>5, <2>4 DEF Ids
  <2>6. QED
    BY <2>3, <2>5 DEF Ids
<1>8. owner'[n] = p
  BY <1>t, <1>6, <1>7
<1>9. IdKeepsPhone'
  BY <1>2, <1>3, <1>6, <1>8 DEF IdInv, IdKeepsPhone
<1>10. OneAccountPerPhone'
  BY <1>2, <1>3, <1>5 DEF IdInv, OneAccountPerPhone
<1>11. AboveUsed'
  <2> SUFFICES ASSUME NEW k \in Ids, owner'[k] # NULL
               PROVE  \E j \in Ids : k <= j /\ users'[j] # NULL
    BY DEF AboveUsed
  <2>1. CASE k <= n
    BY <1>2, <1>3, <2>1
  <2>2. CASE k > n
    <3>1. owner[k] # NULL
      BY <1>6, <2>2 DEF Ids
    <3>2. PICK j \in Ids : k <= j /\ users[j] # NULL
      BY <3>1 DEF IdInv, AboveUsed
    <3>3. j = i /\ j > n
      BY <1>5, <2>2, <3>2 DEF Ids
    <3>4. i > 1 /\ \A l \in Ids : users[l] # NULL => l <= i
      BY <1>5, <3>3 DEF Ids
    <3>5. users[i - 1] # NULL /\ i - 1 \in Ids
      BY <3>2, <3>3, <3>4 DEF IdInv, TopFollows, Ids
    <3>6. QED
      BY <1>5, <3>3, <3>5 DEF Ids
  <2>3. QED
    BY <2>1, <2>2 DEF Ids
<1>12. TopFollows'
  <2> SUFFICES ASSUME NEW k \in Ids, users'[k] # NULL, k > 1,
                      \A j \in Ids : users'[j] # NULL => j <= k
               PROVE  users'[k - 1] # NULL
    BY DEF TopFollows
  <2>1. k = n
    BY <1>2, <1>3, <1>5 DEF Ids
  <2>2. n - 1 \in Ids
    BY <2>1 DEF Ids
  <2>3. QED
    BY <1>3, <1>5, <2>1, <2>2 DEF Ids
<1>13. \A k \in Ids : owner[k] # NULL => owner'[k] = owner[k]
  BY <1>t, <1>6
<1>14. QED
  BY <1>9, <1>10, <1>11, <1>12, <1>13

LEMMA IdInit == Init => IdInv
BY DEF Init, IdInv, OneAccountPerPhone, IdKeepsPhone, AboveUsed, TopFollows, RestartsOwn

LEMMA IdStep ==
  ASSUME TypeOK, IdInv, [Next]_vars
  PROVE  IdInv'
<1> DEFINE Kept == /\ OneAccountPerPhone' /\ IdKeepsPhone' /\ AboveUsed' /\ TopFollows'
                   /\ \A k \in Ids : owner[k] # NULL => owner'[k] = owner[k]
<1>1. Kept
  <2>1. CASE users' = users /\ owner' = owner
    BY <2>1 DEF IdInv, OneAccountPerPhone, IdKeepsPhone, AboveUsed, TopFollows
  <2>2. ASSUME NEW i \in Ids, Edits(i)
        PROVE  Kept
    <3>1. PICK u \in User : u.phone = users[i].phone /\ users' = [users EXCEPT ![i] = u]
      BY <2>2 DEF Edits
    <3>2. users[i] # NULL /\ owner' = owner /\ u # NULL
      BY <2>2 DEF Edits
    <3>3. \A k \in Ids : /\ users'[k] # NULL <=> users[k] # NULL
                          /\ users'[k].phone = users[k].phone
      BY <3>1, <3>2 DEF TypeOK
    <3>4. OneAccountPerPhone' /\ IdKeepsPhone'
      BY <3>2, <3>3 DEF IdInv, OneAccountPerPhone, IdKeepsPhone
    <3>p. \A k \in Ids : users'[k] = NULL <=> users[k] = NULL
      BY <3>1, <3>2 DEF TypeOK
    <3>5. AboveUsed'
      <4> SUFFICES ASSUME NEW k \in Ids, owner'[k] # NULL
                   PROVE  \E j \in Ids : k <= j /\ users'[j] # NULL
        BY DEF AboveUsed
      <4>1. PICK j \in Ids : k <= j /\ users[j] # NULL
        BY <3>2 DEF IdInv, AboveUsed
      <4>2. QED
        BY <3>p, <4>1
    <3>6. TopFollows'
      <4> SUFFICES ASSUME NEW k \in Ids, users'[k] # NULL, k > 1,
                          \A j \in Ids : users'[j] # NULL => j <= k
                   PROVE  users'[k - 1] # NULL
        BY DEF TopFollows
      <4>1. k - 1 \in Ids
        BY DEF Ids
      <4>2. users[k - 1] # NULL
        BY <3>p DEF IdInv, TopFollows
      <4>3. QED
        BY <3>p, <4>1, <4>2
    <3>7. QED
      BY <3>2, <3>4, <3>5, <3>6
  <2>3. ASSUME NEW n \in Ids, NEW p \in Phones, Inserts(users, n, p)
        PROVE  Kept
    <3>1. users = [k \in Ids |-> IF k = 0 THEN NULL ELSE users[k]]
      BY DEF TypeOK, Ids
    <3>2. 0 \notin Ids
      BY DEF Ids
    <3>3. QED
      BY <2>3, <3>1, <3>2, InsertKeeps
  <2>4. ASSUME NEW w \in Workers, NEW n \in Ids, pc[w] = "restart",
               Inserts(RestartRows(w), n, req[w].phone)
        PROVE  Kept
    <3>1. req[w].id \in Ids /\ req[w].phone \in Phones
      BY <2>4 DEF TypeOK, HoldsId, Registering
    <3>2. RestartRows(w) = [k \in Ids |-> IF k = req[w].id THEN NULL ELSE users[k]]
      BY <3>1 DEF RestartRows, TypeOK
    <3>3. owner[req[w].id] = req[w].phone
      BY <2>4 DEF IdInv, RestartsOwn
    <3>4. QED
      BY <2>4, <3>1, <3>2, <3>3, InsertKeeps
  <2>5. QED
    <3> HIDE DEF Kept
    <3>1. QED
      BY <2>1, <2>2, <2>3, <2>4, UserSteps
<1>2. RestartsOwn'
  <2> SUFFICES ASSUME NEW w \in Workers, pc'[w] = "restart"
               PROVE  owner'[req'[w].id] = req'[w].phone
    BY DEF RestartsOwn
  <2>1. ASSUME NEW v \in Workers, NEW p \in Phones, NEW a \in Apartments,
               RegisterSelect(v, p, a), v = w
        PROVE  owner'[req'[w].id] = req'[w].phone
    <3>1. PICK i \in Ids : /\ HasPhone(users, i, p)
                           /\ req'[w] = [NoRequest EXCEPT !.phone = p, !.apartment = a, !.id = i]
      BY <2>1 DEF RegisterSelect, Start, TypeOK
    <3>2. req'[w].id = i /\ req'[w].phone = p
      BY <3>1 DEF NoRequest
    <3>3. owner[i] = p /\ owner' = owner
      BY <2>1, <3>1 DEF HasPhone, IdInv, IdKeepsPhone, RegisterSelect, Unchanged
    <3>4. QED
      BY <3>2, <3>3
  <2>2. CASE pc[w] = "restart" /\ req'[w] = req[w]
    <3>1. req[w].id \in Ids /\ req[w].phone \in Phones /\ owner[req[w].id] = req[w].phone
      BY <2>2 DEF TypeOK, HoldsId, Registering, IdInv, RestartsOwn
    <3>2. owner'[req[w].id] = owner[req[w].id]
      BY <1>1, <3>1
    <3>3. QED
      BY <2>2, <3>1, <3>2
  <2>3. ASSUME NEW v \in Workers, v # w, pc'[w] = pc[w] /\ req'[w] = req[w]
        PROVE  owner'[req'[w].id] = req'[w].phone
    BY <2>2, <2>3
  <2>4. ASSUME NEW v \in Workers,
               \/ \E p \in Phones, a \in Apartments : RegisterSelect(v, p, a)
               \/ RegisterApartment(v) \/ RegisterCount(v)
               \/ \E p \in Phones : ConfirmSelect(v, p)
               \/ \E i \in Ids : ApproveSelect(v, i)
               \/ \E i \in Ids, active \in BOOLEAN : ToggleSelect(v, i, active)
               \/ Return(v)
        PROVE  v = w => \E p \in Phones, a \in Apartments : RegisterSelect(v, p, a)
    BY <2>4 DEF RegisterApartment, RegisterCount, ConfirmSelect, ApproveSelect, ToggleSelect,
                Start, Return, TypeOK
  <2>5. ASSUME NEW v \in Workers, v # w,
               \/ \E p \in Phones, a \in Apartments : RegisterSelect(v, p, a)
               \/ RegisterApartment(v) \/ RegisterCount(v)
               \/ \E p \in Phones : ConfirmSelect(v, p)
               \/ \E i \in Ids : ApproveSelect(v, i)
               \/ \E i \in Ids, active \in BOOLEAN : ToggleSelect(v, i, active)
               \/ Return(v)
        PROVE  pc'[w] = pc[w] /\ req'[w] = req[w]
    BY <2>5 DEF RegisterSelect, RegisterApartment, RegisterCount, ConfirmSelect, ApproveSelect,
                ToggleSelect, Start, Return, TypeOK
  <2>6. CASE UNCHANGED <<pc, req>>
    BY <2>2, <2>6
  <2>7. QED
    <3>1. \/ UNCHANGED <<pc, req>>
          \/ \E v \in Workers :
                \/ \E p \in Phones, a \in Apartments : RegisterSelect(v, p, a)
                \/ RegisterApartment(v) \/ RegisterCount(v)
                \/ \E p \in Phones : ConfirmSelect(v, p)
                \/ \E i \in Ids : ApproveSelect(v, i)
                \/ \E i \in Ids, active \in BOOLEAN : ToggleSelect(v, i, active)
                \/ Return(v)
      BY DEF Next, vars, RegisterCreate, RegisterInsert, RegisterRestart, ConfirmCommit,
             ApproveCommit, RejectUser, ToggleCommit, CreateApartment, UpdateApartment, Abort
    <3>2. QED
      BY <2>1, <2>3, <2>4, <2>5, <2>6, <3>1
<1>3. QED
  BY <1>1, <1>2 DEF IdInv

LEMMA IdInvariant == Spec => []IdInv
<1>1. TypeOK /\ IdInv /\ [Next]_vars => IdInv'
  BY IdStep
<1>2. QED
  BY <1>1, IdInit, Typing, PTL DEF Spec

\* However many workers register a phone at once, it has one account.
THEOREM OneAccount == Spec => []OneAccountPerPhone
BY IdInvariant, PTL DEF IdInv

\* A user id never passes from one phone to another, though SQLite reuses rowids.
THEOREM StableIds == Spec => []IdKeepsPhone
BY IdInvariant, PTL DEF IdInv

-----------------------------------------------------------------------------
(* A single worker *)

\* What holds of every row: the flag agrees with the status, and a row that waits for
\* approval or has a password passed the phone check.
Good(i) ==
    users[i] # NULL =>
        /\ users[i].status = "disabled" => ~users[i].is_active
        /\ users[i].status \in {"pending_otp", "pending_approval", "approved"} => users[i].is_active
        /\ users[i].status = "pending_approval" \/ users[i].password_hash # NULL => i \in verified

\* What a lone handler has read is still so.
Fresh(w) ==
    /\ pc[w] \in {"restart", "confirm"} =>
          users[req[w].id] # NULL /\ users[req[w].id].status = "pending_otp"
    /\ pc[w] = "approve" =>
          users[req[w].id] # NULL /\ users[req[w].id].status = "pending_approval"
    /\ pc[w] = "toggle" =>
          /\ users[req[w].id] # NULL
          /\ users[req[w].id].status = req[w].status
          /\ users[req[w].id].is_active = req[w].is_active

OneInv == (\A i \in Ids : Good(i)) /\ (\A w \in Workers : Fresh(w))

\* What a step leaves of an account past the OTP stage, from one row to the next.
KeepsAccount(old, new) ==
    /\ new # NULL
    /\ new.status # "pending_otp"
    /\ new.phone = old.phone /\ new.apartment = old.apartment
    /\ old.status = "rejected" => new.status \in {"rejected", "disabled"}

KeepsPastOtp ==
    \A i \in Ids : users[i] # NULL /\ users[i].status # "pending_otp"
        => KeepsAccount(users[i], users'[i])

LEMMA OneStep ==
  ASSUME NEW w \in Workers, Workers = {w}, TypeOK, OneInv, [Next]_vars
  PROVE  OneInv' /\ KeepsPastOtp
<1>g. \A i \in Ids : Good(i)
  BY DEF OneInv
<1>f. Fresh(w)
  BY DEF OneInv
<1>i. ASSUME pc'[w] = "idle", \A i \in Ids : Good(i)', KeepsPastOtp
      PROVE  OneInv' /\ KeepsPastOtp
  BY <1>i DEF OneInv, Fresh
<1>r. Return(w) => pc'[w] = "idle"
  BY DEF Return, TypeOK
<1>s. ASSUME UNCHANGED <<users, verified>>, Fresh(w)'
      PROVE  OneInv' /\ KeepsPastOtp
  <2>1. \A i \in Ids : Good(i)'
    BY <1>g, <1>s DEF Good
  <2>2. QED
    BY <1>s, <2>1 DEF OneInv, KeepsPastOtp, KeepsAccount
<1>e. ASSUME NEW i \in Ids, users[i] # NULL, NEW u \in User,
             users' = [users EXCEPT ![i] = u], verified \subseteq verified',
             u.status = "disabled" => ~u.is_active,
             u.status \in {"pending_otp", "pending_approval", "approved"} => u.is_active,
             u.status = "pending_approval" \/ u.password_hash # NULL => i \in verified',
             users[i].status # "pending_otp" => KeepsAccount(users[i], u),
             pc'[w] = "idle"
      PROVE  OneInv' /\ KeepsPastOtp
  <2>1. users'[i] = u /\ u # NULL /\ \A k \in Ids \ {i} : users'[k] = users[k]
    BY <1>e DEF TypeOK
  <2>2. Good(i)'
    BY <1>e, <2>1 DEF Good
  <2>3. \A k \in Ids \ {i} : Good(k)'
    BY <1>g, <1>e, <2>1 DEF Good
  <2>4. KeepsPastOtp
    BY <1>e, <2>1 DEF KeepsPastOtp, KeepsAccount
  <2>5. QED
    BY <1>i, <1>e, <2>2, <2>3, <2>4
<1>n. ASSUME NEW rows, NEW gone \in SUBSET Ids, NEW p \in Phones, NEW a \in Apartments,
             rows \in [Ids -> User \cup {NULL}],
             \A k \in Ids : rows[k] = IF k \in gone THEN NULL ELSE users[k],
             \A k \in gone : users[k] # NULL /\ users[k].status = "pending_otp",
             Insert(rows, gone, p, a), pc'[w] = "idle"
      PROVE  OneInv' /\ KeepsPastOtp
  <2> DEFINE new == NewUser(p, a)
  <2>0. /\ new \in User /\ new # NULL /\ new.status = "pending_otp" /\ new.is_active
        /\ new.password_hash = NULL
    BY RowTypes DEF NewUser
  <2> HIDE DEF new
  <2>1. PICK n \in Ids : /\ NextId(rows, n)
                         /\ users' = [rows EXCEPT ![n] = new]
                         /\ verified' = verified \ (gone \cup {n})
    BY <1>n DEF Insert, new
  <2>2. users'[n] = new /\ \A k \in Ids \ {n} : users'[k] = rows[k]
    BY <1>n, <2>1
  <2>3. rows[n] = NULL
    BY <2>1 DEF NextId, Ids
  <2>4. Good(n)'
    BY <2>0, <2>2 DEF Good
  <2>5. ASSUME NEW k \in Ids \ {n} PROVE Good(k)'
    <3>1. CASE k \in gone
      BY <1>n, <2>2, <3>1 DEF Good
    <3>2. CASE k \notin gone
      <4>1. users'[k] = users[k] /\ (k \in verified' <=> k \in verified)
        BY <1>n, <2>1, <2>2, <3>2
      <4>2. QED
        BY <1>g, <4>1 DEF Good
    <3>3. QED
      BY <3>1, <3>2
  <2>6. KeepsPastOtp
    <3> SUFFICES ASSUME NEW k \in Ids, users[k] # NULL, users[k].status # "pending_otp"
                 PROVE  KeepsAccount(users[k], users'[k])
      BY DEF KeepsPastOtp
    <3>1. k \notin gone /\ rows[k] = users[k]
      BY <1>n
    <3>2. k # n
      BY <2>3, <3>1
    <3>3. QED
      BY <2>2, <3>1, <3>2 DEF KeepsAccount
  <2>7. QED
    BY <1>i, <1>n, <2>4, <2>5, <2>6
<1>1. CASE RegisterCreate(w) \/ RegisterInsert(w)
  <2>1. req[w].phone \in Phones /\ req[w].apartment \in Apartments
    BY <1>1 DEF RegisterCreate, RegisterInsert, TypeOK, Registering
  <2>2. \/ UNCHANGED <<users, verified>>
        \/ Insert(users, {}, req[w].phone, req[w].apartment)
    BY <1>1 DEF RegisterCreate, RegisterInsert, Unchanged
  <2>3. pc'[w] = "idle" /\ users \in [Ids -> User \cup {NULL}]
    BY <1>1, <1>r DEF RegisterCreate, RegisterInsert, TypeOK
  <2>4. CASE UNCHANGED <<users, verified>>
    BY <1>s, <2>3, <2>4 DEF Fresh
  <2>5. QED
    BY <1>n, <2>1, <2>2, <2>3, <2>4
<1>2. CASE RegisterRestart(w)
  <2> DEFINE i == req[w].id
  <2>1. /\ req[w].phone \in Phones /\ req[w].apartment \in Apartments /\ pc[w] = "restart"
        /\ i \in Ids
    BY <1>2 DEF RegisterRestart, TypeOK, Registering, HoldsId
  <2>2. \/ UNCHANGED <<users, verified>>
        \/ Insert(RestartRows(w), {i}, req[w].phone, req[w].apartment)
    BY <1>2 DEF RegisterRestart, RestartRows, Unchanged
  <2>3. pc'[w] = "idle"
    BY <1>2, <1>r DEF RegisterRestart
  <2>4. CASE UNCHANGED <<users, verified>>
    BY <1>s, <2>3, <2>4 DEF Fresh
  <2>5. /\ RestartRows(w) \in [Ids -> User \cup {NULL}]
        /\ \A k \in Ids : RestartRows(w)[k] = IF k \in {i} THEN NULL ELSE users[k]
    BY <2>1 DEF RestartRows, TypeOK
  <2>6. users[i] # NULL /\ users[i].status = "pending_otp"
    BY <1>f, <2>1 DEF Fresh
  <2>7. QED
    BY <1>n, <2>1, <2>2, <2>3, <2>4, <2>5, <2>6
<1>3. CASE ConfirmCommit(w)
  <2> DEFINE i == req[w].id  u == [users[i] EXCEPT !.status = "pending_approval"]
  <2>1. i \in Ids /\ users[i] # NULL /\ users[i].status = "pending_otp"
    BY <1>3, <1>f DEF ConfirmCommit, TypeOK, HoldsId, Fresh
  <2>2. users[i] \in User
    BY <2>1 DEF TypeOK
  <2>3. /\ u \in User /\ u.status = "pending_approval" /\ u.is_active = users[i].is_active
    BY <2>2 DEF User, UserStatus
  <2>4. users[i].is_active
    BY <1>g, <2>1 DEF Good
  <2>5. users' = [users EXCEPT ![i] = u] /\ verified' = verified \cup {i}
    BY <1>3, <2>1 DEF ConfirmCommit
  <2>6. pc'[w] = "idle"
    BY <1>3, <1>r DEF ConfirmCommit
  <2> HIDE DEF u
  <2>7. QED
    BY <1>e, <2>1, <2>3, <2>4, <2>5, <2>6
<1>4. CASE ApproveCommit(w)
  <2> DEFINE i == req[w].id
             u == [users[i] EXCEPT !.status = "approved", !.password_hash = "bcrypt"]
  <2>1. i \in Ids /\ users[i] # NULL /\ users[i].status = "pending_approval"
    BY <1>4, <1>f DEF ApproveCommit, TypeOK, HoldsId, Fresh
  <2>2. users[i] \in User
    BY <2>1 DEF TypeOK
  <2>3. /\ u \in User /\ u.status = "approved" /\ u.is_active = users[i].is_active
        /\ KeepsAccount(users[i], u)
    BY <2>1, <2>2 DEF User, UserStatus, KeepsAccount
  <2>4. users[i].is_active /\ i \in verified
    BY <1>g, <2>1 DEF Good
  <2>5. users' = [users EXCEPT ![i] = u] /\ verified' = verified
    BY <1>4, <2>1 DEF ApproveCommit
  <2>6. pc'[w] = "idle"
    BY <1>4, <1>r DEF ApproveCommit
  <2> HIDE DEF u
  <2>7. QED
    BY <1>e, <2>1, <2>3, <2>4, <2>5, <2>6
<1>5. ASSUME NEW i \in Ids, RejectUser(w, i)
      PROVE  OneInv' /\ KeepsPastOtp
  <2> DEFINE u == [users[i] EXCEPT !.status = "rejected"]
  <2>1. users[i] # NULL /\ users[i] \in User
    BY <1>5 DEF RejectUser, TypeOK
  <2>2. /\ u \in User /\ u.status = "rejected" /\ u.password_hash = users[i].password_hash
        /\ KeepsAccount(users[i], u)
    BY <2>1 DEF User, UserStatus, KeepsAccount
  <2>3. users[i].password_hash # NULL => i \in verified
    BY <1>g, <2>1 DEF Good
  <2>4. users' = [users EXCEPT ![i] = u] /\ verified' = verified /\ pc'[w] = "idle"
    BY <1>5 DEF RejectUser
  <2> HIDE DEF u
  <2>5. QED
    BY <1>e, <2>1, <2>2, <2>3, <2>4
<1>6. CASE ToggleCommit(w)
  <2> DEFINE r == req[w]  i == r.id  s == ToggledStatus(r.active, r.status)
             u == [users[i] EXCEPT !.is_active = r.active, !.status = s]
  <2>1. /\ i \in Ids /\ users[i] # NULL
        /\ users[i].status = r.status /\ users[i].is_active = r.is_active
    BY <1>6, <1>f DEF ToggleCommit, TypeOK, HoldsId, Fresh
  <2>2. users[i] \in User /\ r \in Request
    BY <2>1 DEF TypeOK
  <2>3. r.active \in BOOLEAN /\ s \in UserStatus
    BY <2>2 DEF Request, ToggledStatus, UserStatus
  <2>4. /\ u \in User /\ u.status = s /\ u.is_active = r.active
        /\ u.password_hash = users[i].password_hash
        /\ u.phone = users[i].phone /\ u.apartment = users[i].apartment
    <3> HIDE DEF s
    <3>1. QED
      BY <2>2, <2>3 DEF User
  <2>5. users' = [users EXCEPT ![i] = u] /\ verified' = verified
    <3>1. \/ r.active = r.is_active /\ users[i].is_active = r.active
          \/ r.active # r.is_active
      BY <2>1
    <3>2. \/ s = r.status /\ users[i].status = s
          \/ s # r.status
      BY <2>1
    <3>3. QED
      BY <1>6, <2>1, <3>1, <3>2 DEF ToggleCommit
  <2>6. pc'[w] = "idle"
    BY <1>6, <1>r DEF ToggleCommit
  <2>7. /\ s = "disabled" => ~r.active
        /\ s \in {"pending_otp", "pending_approval", "approved"} => r.active
        /\ s = "pending_approval" => users[i].status = "pending_approval"
        /\ users[i].status # "pending_otp" => s # "pending_otp"
        /\ users[i].status = "rejected" => s \in {"rejected", "disabled"}
    BY <2>1, <2>3 DEF ToggledStatus
  <2>a. users[i].status # "pending_otp" => KeepsAccount(users[i], u)
    <3> HIDE DEF u, s
    <3>1. u # NULL
      BY <2>4
    <3>2. QED
      BY <2>4, <2>7, <3>1 DEF KeepsAccount
  <2>8. users[i].status = "pending_approval" \/ users[i].password_hash # NULL => i \in verified
    BY <1>g, <2>1 DEF Good
  <2> HIDE DEF u, s
  <2>9. QED
    BY <1>e, <2>1, <2>4, <2>5, <2>6, <2>7, <2>8, <2>a
<1>7. CASE /\ UNCHANGED <<users, verified>>
           /\ \/ pc'[w] \in {"idle", "apartment", "create", "count", "insert"}
              \/ UNCHANGED <<pc, req>>
  BY <1>s, <1>f, <1>7 DEF Fresh
<1>8. ASSUME NEW p \in Phones, NEW a \in Apartments, RegisterSelect(w, p, a)
      PROVE  OneInv' /\ KeepsPastOtp
  <2>1. UNCHANGED <<users, verified>>
    BY <1>8 DEF RegisterSelect, Unchanged
  <2>2. CASE Start(w, "apartment", [NoRequest EXCEPT !.phone = p, !.apartment = a])
    BY <1>7, <2>1, <2>2 DEF Start, TypeOK
  <2>3. ASSUME NEW i \in Ids, users[i] # NULL, users[i].status = "pending_otp",
               Start(w, "restart", [NoRequest EXCEPT !.phone = p, !.apartment = a, !.id = i])
        PROVE  OneInv' /\ KeepsPastOtp
    <3>1. pc'[w] = "restart" /\ req'[w].id = i
      BY <2>3 DEF Start, TypeOK, NoRequest
    <3>2. QED
      BY <1>s, <2>1, <2>3, <3>1 DEF Fresh
  <2>4. QED
    BY <1>8, <2>2, <2>3 DEF RegisterSelect, HasPhone
<1>9. ASSUME NEW p \in Phones, ConfirmSelect(w, p)
      PROVE  OneInv' /\ KeepsPastOtp
  <2>1. PICK i \in Ids :
          /\ users[i] # NULL /\ users[i].status = "pending_otp"
          /\ Start(w, "confirm", [NoRequest EXCEPT !.phone = p, !.id = i])
          /\ UNCHANGED <<users, verified>>
    BY <1>9 DEF ConfirmSelect, HasPhone, Unchanged
  <2>2. pc'[w] = "confirm" /\ req'[w].id = i
    BY <2>1 DEF Start, TypeOK, NoRequest
  <2>3. QED
    BY <1>s, <2>1, <2>2 DEF Fresh
<1>10. ASSUME NEW i \in Ids, ApproveSelect(w, i)
       PROVE  OneInv' /\ KeepsPastOtp
  <2>1. pc'[w] = "approve" /\ req'[w].id = i
    BY <1>10 DEF ApproveSelect, Start, TypeOK, NoRequest
  <2>2. QED
    BY <1>s, <1>10, <2>1 DEF Fresh, ApproveSelect, Unchanged
<1>11. ASSUME NEW i \in Ids, NEW active \in BOOLEAN, ToggleSelect(w, i, active)
       PROVE  OneInv' /\ KeepsPastOtp
  <2>1. /\ pc'[w] = "toggle" /\ req'[w].id = i /\ req'[w].status = users[i].status
        /\ req'[w].is_active = users[i].is_active
    BY <1>11 DEF ToggleSelect, Start, TypeOK, NoRequest
  <2>2. QED
    BY <1>s, <1>11, <2>1 DEF Fresh, ToggleSelect, Unchanged
<1>12. ASSUME \/ RegisterApartment(w) \/ RegisterCount(w) \/ Abort(w)
              \/ \E a \in Apartments, limit \in VoterLimits : CreateApartment(w, a, limit)
              \/ \E a \in Apartments, limit \in VoterLimits, is_active \in BOOLEAN :
                    UpdateApartment(w, a, limit, is_active)
       PROVE  OneInv' /\ KeepsPastOtp
  <2>1. /\ UNCHANGED <<users, verified>>
        /\ \/ pc'[w] \in {"idle", "apartment", "create", "count", "insert"}
           \/ UNCHANGED <<pc, req>>
    BY <1>12, <1>r DEF RegisterApartment, RegisterCount, Abort, CreateApartment, UpdateApartment,
                 Unchanged, TypeOK
  <2>2. QED
    BY <1>7, <2>1
<1>13. QED
  <2>1. CASE UNCHANGED vars
    BY <1>7, <2>1 DEF vars
  <2>2. QED
    BY <1>1, <1>2, <1>3, <1>4, <1>5, <1>6, <1>8, <1>9, <1>10, <1>11, <1>12, <2>1 DEF Next

\* With one worker only a registration whose phone was verified gets a password.
THEOREM SingleWorkerCredentials ==
  ASSUME NEW w \in Workers, Workers = {w}
  PROVE  Spec => [](CredentialsFollowVerification /\ FlagMatchesStatus)
<1>1. Init => OneInv
  BY DEF Init, OneInv, Good, Fresh
<1>2. TypeOK /\ OneInv /\ [Next]_vars => OneInv'
  BY OneStep
<1>3. OneInv => CredentialsFollowVerification /\ FlagMatchesStatus
  BY DEF OneInv, Good, CredentialsFollowVerification, FlagMatchesStatus
<1>4. QED
  BY <1>1, <1>2, <1>3, Typing, PTL DEF Spec

\* With one worker the two columns that say whether an account is on never disagree,
\* though each is read by a different check.
THEOREM SingleWorkerFlags ==
  ASSUME NEW w \in Workers, Workers = {w}
  PROVE  Spec => []FlagMatchesStatus
BY SingleWorkerCredentials, PTL

LEMMA OneWorker ==
  ASSUME NEW w \in Workers, Workers = {w}
  PROVE  Spec => [][KeepsPastOtp]_vars
<1>1. Init => OneInv
  BY DEF Init, OneInv, Good, Fresh
<1>2. TypeOK /\ OneInv /\ [Next]_vars => OneInv' /\ KeepsPastOtp
  BY OneStep
<1>3. KeepsPastOtp => [KeepsPastOtp]_vars
  OBVIOUS
<1>4. QED
  BY <1>1, <1>2, <1>3, Typing, PTL DEF Spec

\* With one worker an account past the OTP stage is never deleted or set back.
THEOREM SingleWorkerPastOtp ==
  ASSUME NEW w \in Workers, Workers = {w}
  PROVE  Spec => PastOtpKept
<1>1. [KeepsPastOtp]_vars =>
         [\A i \in Ids : users[i] # NULL /\ users[i].status # "pending_otp"
            => users'[i] # NULL /\ users'[i].status # "pending_otp"]_vars
  BY DEF KeepsPastOtp, KeepsAccount
<1>2. QED
  BY <1>1, OneWorker, PTL DEF PastOtpKept

\* With one worker no approval or confirmation under way brings a rejected account back.
THEOREM SingleWorkerRejection ==
  ASSUME NEW w \in Workers, Workers = {w}
  PROVE  Spec => RejectionSticks
<1>1. [KeepsPastOtp]_vars =>
         [\A i \in Ids : users[i] # NULL /\ users[i].status = "rejected"
            => users'[i] # NULL /\ users'[i].status \in {"rejected", "disabled"}]_vars
  BY DEF KeepsPastOtp, KeepsAccount
<1>2. QED
  BY <1>1, OneWorker, PTL DEF RejectionSticks
-----------------------------------------------------------------------------
(* The account book of a single worker *)

\* The entries of a table in which one row has come, or changed, in the place of all the
\* rows of its phone.
LEMMA BookMoves ==
  ASSUME NEW gone \in SUBSET Ids, NEW n \in Ids, NEW u \in User,
         \A k \in Ids : users'[k] = IF k = n THEN u ELSE IF k \in gone THEN NULL ELSE users[k],
         \A k \in Ids \ (gone \cup {n}) : k \in verified' <=> k \in verified,
         \A k \in Ids : users[k] # NULL =>
            (k \in gone \cup {n} <=> users[k].phone = u.phone)
  PROVE  /\ EntryOf(n)'.phone = u.phone
         /\ Accounts' = (Accounts \ Book!EntryOf(u.phone)) \cup {EntryOf(n)'}
<1>1. u # NULL /\ users'[n] = u
  OBVIOUS
<1>2. EntryOf(n)'.phone = u.phone
  BY <1>1 DEF EntryOf
<1>3. ASSUME NEW k \in Ids \ (gone \cup {n})
      PROVE  EntryOf(k)' = EntryOf(k) /\ users'[k] = users[k]
  BY <1>3 DEF EntryOf
<1>4. \A k \in Ids : EntryOf(k).phone = users[k].phone
  BY DEF EntryOf
<1>5. ASSUME NEW e \in Accounts' PROVE e \in (Accounts \ Book!EntryOf(u.phone)) \cup {EntryOf(n)'}
  <2>1. PICK k \in Ids : users'[k] # NULL /\ e = EntryOf(k)'
    BY DEF Accounts
  <2>2. CASE k = n
    BY <2>1, <2>2
  <2>3. CASE k # n
    <3>1. k \notin gone
      BY <2>1, <2>3
    <3>2. e = EntryOf(k) /\ users[k] # NULL
      BY <1>3, <2>1, <2>3, <3>1
    <3>3. e.phone # u.phone
      BY <1>4, <2>3, <3>1, <3>2
    <3>4. QED
      BY <3>2, <3>3 DEF Accounts, Book!EntryOf
  <2>4. QED
    BY <2>2, <2>3
<1>6. ASSUME NEW e \in (Accounts \ Book!EntryOf(u.phone)) \cup {EntryOf(n)'} PROVE e \in Accounts'
  <2>1. CASE e = EntryOf(n)'
    BY <1>1, <2>1 DEF Accounts
  <2>2. CASE e \in Accounts /\ e.phone # u.phone
    <3>1. PICK k \in Ids : users[k] # NULL /\ e = EntryOf(k)
      BY <2>2 DEF Accounts
    <3>2. k \notin gone \cup {n}
      BY <1>4, <2>2, <3>1
    <3>3. users'[k] # NULL /\ e = EntryOf(k)'
      BY <1>3, <3>1, <3>2
    <3>4. QED
      BY <3>3 DEF Accounts
  <2>3. QED
    BY <2>1, <2>2 DEF Book!EntryOf
<1>7. QED
  BY <1>2, <1>5, <1>6

\* A changed row is a changed entry.
LEMMA BookEdits ==
  ASSUME TypeOK, OneAccountPerPhone, NEW i \in Ids, users[i] # NULL, NEW u \in User,
         u.phone = users[i].phone, users' = [users EXCEPT ![i] = u],
         \A k \in Ids \ {i} : k \in verified' <=> k \in verified,
         LET old == EntryOf(i)  new == EntryOf(i)' IN
            \/ new = old
            \/ Book!Confirm(old, new) \/ Book!Approve(old, new) \/ Book!Reject(old, new)
            \/ Book!Disable(old, new) \/ Book!Enable(old, new)
  PROVE  [Book!Next]_Accounts
<1> DEFINE old == EntryOf(i)  new == EntryOf(i)'
<1>1. \A k \in Ids : users'[k] = IF k = i THEN u ELSE IF k \in {i} THEN NULL ELSE users[k]
  BY DEF TypeOK
<1>2. \A k \in Ids : users[k] # NULL => (k \in {i} \cup {i} <=> users[k].phone = u.phone)
  BY DEF OneAccountPerPhone
<1>v. \A k \in Ids \ ({i} \cup {i}) : k \in verified' <=> k \in verified
  OBVIOUS
<1>3. new.phone = u.phone /\ Accounts' = (Accounts \ Book!EntryOf(u.phone)) \cup {new}
  <2>1. {i} \in SUBSET Ids
    OBVIOUS
  <2>2. QED
    BY <1>1, <1>2, <1>v, <2>1, BookMoves, Zenon
<1>4. old \in Accounts /\ old.phone = u.phone
  BY DEF Accounts, EntryOf
<1>5. old \in Book!EntryOf(u.phone)
  BY <1>4 DEF Book!EntryOf
<1>6. \A e \in Book!EntryOf(u.phone) : e = old
  BY <1>2 DEF Book!EntryOf, Accounts, EntryOf
<1>7. CASE new = old
  BY <1>3, <1>4, <1>5, <1>6, <1>7
<1>8. CASE new # old
  <2>1. new \in Accounts' \ Accounts
    BY <1>3, <1>6, <1>8 DEF Book!EntryOf
  <2>2. \/ Book!Confirm(old, new) \/ Book!Approve(old, new) \/ Book!Reject(old, new)
        \/ Book!Disable(old, new) \/ Book!Enable(old, new)
    BY <1>8
  <2> HIDE DEF old, new
  <2>3. QED
    BY <1>3, <1>5, <2>1, <2>2 DEF Book!Next
<1>9. QED
  BY <1>7, <1>8

LEMMA NewRowFields ==
  ASSUME NEW p, NEW a
  PROVE  /\ NewUser(p, a).phone = p /\ NewUser(p, a).apartment = a
         /\ NewUser(p, a).status = "pending_otp" /\ NewUser(p, a).password_hash = NULL
BY DEF NewUser

\* A new row is a new entry, or takes the place of the one entry its phone had.
LEMMA BookInserts ==
  ASSUME TypeOK, NEW rows \in [Ids -> User \cup {NULL}], NEW gone \in SUBSET Ids,
         NEW p \in Phones, NEW a \in Apartments,
         \A k \in Ids : rows[k] = IF k \in gone THEN NULL ELSE users[k],
         \A j, k \in gone : j = k,
         \A k \in gone : /\ users[k] # NULL /\ users[k].phone = p
                         /\ users[k].status = "pending_otp",
         PhoneUnique(rows, p), Insert(rows, gone, p, a)
  PROVE  [Book!Next]_Accounts
<1> DEFINE u == NewUser(p, a)
<1>1. PICK n \in Ids : /\ NextId(rows, n)
                       /\ users' = [rows EXCEPT ![n] = u]
                       /\ verified' = verified \ (gone \cup {n})
  BY DEF Insert
<1>2. u \in User /\ u.phone = p
  BY RowTypes
<1>3. rows[n] = NULL /\ users'[n] = u
  BY <1>1 DEF NextId, Ids
<1>4. EntryOf(n)' = [phone |-> p, apartment |-> a, status |-> "pending_otp",
                     checked |-> FALSE, password |-> FALSE]
  <2>1. (n \in verified') = FALSE /\ (u.password_hash # NULL) = FALSE
    BY <1>1, NewRowFields
  <2>2. u.phone = p /\ u.apartment = a /\ u.status = "pending_otp"
    BY NewRowFields
  <2>3. EntryOf(n)' = [phone |-> u.phone, apartment |-> u.apartment, status |-> u.status,
                       checked |-> n \in verified', password |-> u.password_hash # NULL]
    BY <1>3 DEF EntryOf
  <2> HIDE DEF u
  <2>4. QED
    BY <2>1, <2>2, <2>3, Zenon
<1> DEFINE new == EntryOf(n)'
<1>5. Book!Register(new)
  BY <1>4 DEF Book!Register, Book!Entry, Book!Stages
<1> HIDE DEF u
<1>6. \A k \in Ids : users'[k] = IF k = n THEN u ELSE IF k \in gone THEN NULL ELSE users[k]
  BY <1>1
<1>7. \A k \in Ids \ (gone \cup {n}) : k \in verified' <=> k \in verified
  BY <1>1
<1>8. \A k \in Ids : users[k] # NULL => (k \in gone \cup {n} <=> users[k].phone = u.phone)
  <2> SUFFICES ASSUME NEW k \in Ids, users[k] # NULL
               PROVE  k \in gone \cup {n} <=> users[k].phone = p
    BY <1>2
  <2>1. k \notin gone => users[k].phone # p /\ k # n
    BY <1>3 DEF PhoneUnique, PhoneFree, HasPhone
  <2>2. QED
    BY <2>1
<1>9. new.phone = p /\ Accounts' = (Accounts \ Book!EntryOf(p)) \cup {new}
  <2>1. new.phone = u.phone /\ Accounts' = (Accounts \ Book!EntryOf(u.phone)) \cup {new}
    BY <1>2, <1>6, <1>7, <1>8, BookMoves, Zenon
  <2>2. QED
    BY <1>2, <2>1
<1> HIDE DEF new
<1>10. \A e \in Book!EntryOf(p) : \E k \in gone : e = EntryOf(k)
  <2> SUFFICES ASSUME NEW e \in Accounts, e.phone = p PROVE \E k \in gone : e = EntryOf(k)
    BY DEF Book!EntryOf
  <2>1. PICK k \in Ids : users[k] # NULL /\ e = EntryOf(k)
    BY DEF Accounts
  <2>2. users[k].phone = p
    BY <2>1 DEF EntryOf
  <2>3. k \in gone
    BY <1>2, <1>3, <1>8, <2>1, <2>2
  <2>4. QED
    BY <2>1, <2>3
<1>11. CASE new \in Accounts
  <2>1. new \in Book!EntryOf(p)
    BY <1>9, <1>11 DEF Book!EntryOf
  <2>2. \A e \in Book!EntryOf(p) : e = new
    BY <1>10, <2>1
  <2>3. Accounts' = Accounts
    BY <1>9, <2>1, <2>2 DEF Book!EntryOf
  <2>4. QED
    BY <2>3
<1>12. CASE new \notin Accounts
  <2>1. new \in Accounts' \ Accounts
    BY <1>9, <1>12
  <2>2. ASSUME NEW old \in Book!EntryOf(p) PROVE Book!Again(old, new)
    <3>1. PICK k \in gone : old = EntryOf(k)
      BY <1>10
    <3>2. old.status = "pending_otp"
      BY <3>1 DEF EntryOf
    <3>3. QED
      BY <1>5, <3>2 DEF Book!Again
  <2>3. QED
    BY <1>5, <1>9, <2>1, <2>2 DEF Book!Next
<1>13. QED
  BY <1>11, <1>12

\* The entry of an edited row.
LEMMA EntryEdits ==
  ASSUME NEW i, NEW u, users'[i] = u,
         u.phone = users[i].phone, u.apartment = users[i].apartment
  PROVE  LET old == EntryOf(i)  new == EntryOf(i)' IN
         /\ old.status = users[i].status
         /\ verified' = verified /\ u.password_hash = users[i].password_hash
               => new = [old EXCEPT !.status = u.status]
         /\ verified' = verified /\ u.password_hash = "bcrypt"
               => new = [old EXCEPT !.status = u.status, !.password = TRUE]
         /\ i \in verified' /\ u.password_hash = users[i].password_hash
               => new = [old EXCEPT !.status = u.status, !.checked = TRUE]
<1> DEFINE old == EntryOf(i)  new == EntryOf(i)'
           checked == i \in verified  password == users[i].password_hash # NULL
           checkedNow == i \in verified'  passwordNow == u.password_hash # NULL
           yes == TRUE
<1>1. new = [phone |-> users[i].phone, apartment |-> users[i].apartment, status |-> u.status,
             checked |-> checkedNow, password |-> passwordNow]
  BY DEF EntryOf
<1>2. old = [phone |-> users[i].phone, apartment |-> users[i].apartment,
             status |-> users[i].status, checked |-> checked, password |-> password]
  BY DEF EntryOf
<1>3. /\ verified' = verified => checkedNow = checked
      /\ u.password_hash = users[i].password_hash => passwordNow = password
  OBVIOUS
<1>y. /\ i \in verified' => checkedNow = yes
      /\ u.password_hash = "bcrypt" => passwordNow = yes
  OBVIOUS
<1> HIDE DEF old, new, checked, password, checkedNow, passwordNow, yes
<1>4. old.status = users[i].status
  BY <1>2
<1>5. verified' = verified /\ u.password_hash = users[i].password_hash
        => new = [old EXCEPT !.status = u.status]
  BY <1>1, <1>2, <1>3
<1> DEFINE moved == [old EXCEPT !.status = u.status]
<1>m. /\ [old EXCEPT !.status = u.status, !.password = yes] = [moved EXCEPT !.password = yes]
      /\ [old EXCEPT !.status = u.status, !.checked = yes] = [moved EXCEPT !.checked = yes]
  BY <1>2
<1>r. moved = [phone |-> users[i].phone, apartment |-> users[i].apartment, status |-> u.status,
               checked |-> checked, password |-> password]
  BY <1>2
<1> HIDE DEF moved
<1>6. verified' = verified /\ u.password_hash = "bcrypt"
        => new = [moved EXCEPT !.password = yes]
  BY <1>1, <1>3, <1>r, <1>y
<1>7. i \in verified' /\ u.password_hash = users[i].password_hash
        => new = [moved EXCEPT !.checked = yes]
  BY <1>1, <1>3, <1>r, <1>y
<1>8. QED
  BY <1>4, <1>5, <1>6, <1>7, <1>m DEF old, new, yes

LEMMA BookStep ==
  ASSUME NEW w \in Workers, Workers = {w}, TypeOK, OneInv, IdInv, [Next]_vars
  PROVE  [Book!Next]_Accounts
<1>f. Fresh(w)
  BY DEF OneInv
<1>o. OneAccountPerPhone /\ IdKeepsPhone
  BY DEF IdInv
<1>1. CASE UNCHANGED <<users, verified>>
  BY <1>1 DEF Accounts, EntryOf
<1>2. ASSUME NEW i \in Ids, users[i] # NULL, NEW u \in User,
             u.phone = users[i].phone, u.apartment = users[i].apartment,
             users' = [users EXCEPT ![i] = u], verified' = verified,
             u.password_hash = users[i].password_hash,
             \/ u.status = users[i].status
             \/ u.status \in {"rejected", "disabled"}
             \/ users[i].status = "disabled" /\ u.status = "approved"
      PROVE  [Book!Next]_Accounts
  <2> DEFINE old == EntryOf(i)  new == EntryOf(i)'
  <2>1. users'[i] = u
    BY <1>2 DEF TypeOK
  <2>2. old.status = users[i].status /\ new = [old EXCEPT !.status = u.status]
    BY <1>2, <2>1, EntryEdits
  <2>3. old = [old EXCEPT !.status = old.status]
    BY DEF EntryOf
  <2> HIDE DEF old, new
  <2>4. \/ new = old
        \/ Book!Reject(old, new) \/ Book!Disable(old, new) \/ Book!Enable(old, new)
    BY <1>2, <2>2, <2>3 DEF Book!Reject, Book!Disable, Book!Enable
  <2>5. QED
    BY <1>o, <1>2, <2>4, BookEdits DEF old, new
<1>4. CASE RegisterCreate(w) \/ RegisterInsert(w)
  <2>1. req[w].phone \in Phones /\ req[w].apartment \in Apartments
    BY <1>4 DEF RegisterCreate, RegisterInsert, TypeOK, Registering
  <2>2. \/ UNCHANGED <<users, verified>>
        \/ /\ PhoneUnique(users, req[w].phone)
           /\ Insert(users, {}, req[w].phone, req[w].apartment)
    BY <1>4 DEF RegisterCreate, RegisterInsert, Unchanged
  <2>3. QED
    BY <1>1, <2>1, <2>2, BookInserts DEF TypeOK
<1>5. CASE RegisterRestart(w)
  <2> DEFINE i == req[w].id
  <2>1. /\ req[w].phone \in Phones /\ req[w].apartment \in Apartments /\ i \in Ids
        /\ users[i] # NULL /\ users[i].status = "pending_otp" /\ pc[w] = "restart"
    BY <1>5, <1>f DEF RegisterRestart, TypeOK, Registering, HoldsId, Fresh
  <2>2. users[i].phone = req[w].phone
    BY <1>o, <2>1 DEF IdInv, RestartsOwn, IdKeepsPhone
  <2>3. \/ UNCHANGED <<users, verified>>
        \/ /\ PhoneUnique(RestartRows(w), req[w].phone)
           /\ Insert(RestartRows(w), {i}, req[w].phone, req[w].apartment)
    BY <1>5 DEF RegisterRestart, RestartRows, Unchanged
  <2>4. /\ RestartRows(w) \in [Ids -> User \cup {NULL}]
        /\ \A k \in Ids : RestartRows(w)[k] = IF k \in {i} THEN NULL ELSE users[k]
    BY DEF RestartRows, TypeOK
  <2>5. QED
    BY <1>1, <2>1, <2>2, <2>3, <2>4, BookInserts
<1>6. CASE ConfirmCommit(w)
  <2>1. PICK i \in Ids : i = req[w].id
    BY <1>6 DEF ConfirmCommit, TypeOK, HoldsId
  <2>2. users[i] # NULL /\ users[i] \in User /\ users[i].status = "pending_otp"
    BY <1>6, <1>f, <2>1 DEF ConfirmCommit, Fresh, TypeOK
  <2> DEFINE u == [users[i] EXCEPT !.status = "pending_approval"]
             old == EntryOf(i)  new == EntryOf(i)'
  <2>3. /\ u \in User /\ u.phone = users[i].phone /\ u.apartment = users[i].apartment
        /\ u.password_hash = users[i].password_hash /\ u.status = "pending_approval"
    BY <2>2 DEF User, UserStatus
  <2>4. users' = [users EXCEPT ![i] = u] /\ verified' = verified \cup {i}
    BY <1>6, <2>1, <2>2 DEF ConfirmCommit
  <2> HIDE DEF u
  <2>5. users'[i] = u /\ i \in verified'
    BY <2>4 DEF TypeOK
  <2>6. old.status = users[i].status /\ new = [old EXCEPT !.status = u.status, !.checked = TRUE]
    BY <2>3, <2>5, EntryEdits
  <2>a. Book!Confirm(old, new)
    <3> HIDE DEF old, new
    <3>1. QED
      BY <2>2, <2>3, <2>6 DEF Book!Confirm
  <2>7. \A k \in Ids \ {i} : k \in verified' <=> k \in verified
    BY <2>4
  <2>8. QED
    BY <1>o, <2>2, <2>3, <2>4, <2>7, <2>a, BookEdits
<1>7. CASE ApproveCommit(w)
  <2>1. PICK i \in Ids : i = req[w].id
    BY <1>7 DEF ApproveCommit, TypeOK, HoldsId
  <2>2. users[i] # NULL /\ users[i] \in User /\ users[i].status = "pending_approval"
    BY <1>7, <1>f, <2>1 DEF ApproveCommit, Fresh, TypeOK
  <2> DEFINE u == [users[i] EXCEPT !.status = "approved", !.password_hash = "bcrypt"]
             old == EntryOf(i)  new == EntryOf(i)'
  <2>3. /\ u \in User /\ u.phone = users[i].phone /\ u.apartment = users[i].apartment
        /\ u.password_hash = "bcrypt" /\ u.status = "approved"
    BY <2>2 DEF User, UserStatus
  <2>4. users' = [users EXCEPT ![i] = u] /\ verified' = verified
    BY <1>7, <2>1, <2>2 DEF ApproveCommit
  <2> HIDE DEF u
  <2>5. users'[i] = u
    BY <2>4 DEF TypeOK
  <2>6. old.status = users[i].status /\ new = [old EXCEPT !.status = u.status, !.password = TRUE]
    BY <2>3, <2>4, <2>5, EntryEdits
  <2>7. Book!Approve(old, new)
    <3> HIDE DEF old, new
    <3>1. QED
      BY <2>2, <2>3, <2>6 DEF Book!Approve
  <2>8. QED
    BY <1>o, <2>2, <2>3, <2>4, <2>7, BookEdits
<1>8. ASSUME NEW i \in Ids, RejectUser(w, i) PROVE [Book!Next]_Accounts
  <2>1. users[i] # NULL /\ users[i] \in User
    BY <1>8 DEF RejectUser, TypeOK
  <2> DEFINE u == [users[i] EXCEPT !.status = "rejected"]
  <2>2. /\ u \in User /\ u.phone = users[i].phone /\ u.apartment = users[i].apartment
        /\ u.password_hash = users[i].password_hash /\ u.status = "rejected"
    BY <2>1 DEF User, UserStatus
  <2>3. users' = [users EXCEPT ![i] = u] /\ verified' = verified
    BY <1>8 DEF RejectUser
  <2> HIDE DEF u
  <2>4. QED
    BY <1>2, <2>1, <2>2, <2>3
<1>9. CASE ToggleCommit(w)
  <2> DEFINE r == req[w]  s == ToggledStatus(r.active, r.status)
  <2>1. PICK i \in Ids : i = r.id
    BY <1>9 DEF ToggleCommit, TypeOK, HoldsId
  <2>2. /\ users[i] # NULL /\ users[i] \in User /\ r \in Request
        /\ users[i].status = r.status /\ users[i].is_active = r.is_active
    BY <1>9, <1>f, <2>1 DEF ToggleCommit, Fresh, TypeOK
  <2> DEFINE b == IF r.active = r.is_active THEN users[i].is_active ELSE r.active
             t == IF s = r.status THEN users[i].status ELSE s
             u == [users[i] EXCEPT !.is_active = b, !.status = t]
  <2>3. b \in BOOLEAN /\ t = s /\ s \in UserStatus
    BY <2>2 DEF User, Request, ToggledStatus, UserStatus
  <2>4. users' = [users EXCEPT ![i] = u] /\ verified' = verified
    BY <1>9, <2>1, <2>2 DEF ToggleCommit
  <2>5. \/ s = users[i].status \/ s \in {"rejected", "disabled"}
        \/ users[i].status = "disabled" /\ s = "approved"
    BY <2>2 DEF ToggledStatus
  <2> HIDE DEF b, s, t
  <2>6. /\ u \in User /\ u.phone = users[i].phone /\ u.apartment = users[i].apartment
        /\ u.password_hash = users[i].password_hash /\ u.status = s
    BY <2>2, <2>3 DEF User
  <2> HIDE DEF u
  <2>7. QED
    BY <1>2, <2>2, <2>4, <2>5, <2>6
<1>10. QED
  BY <1>1, <1>4, <1>5, <1>6, <1>7, <1>8, <1>9
  DEF Next, vars, Unchanged, RegisterSelect, RegisterApartment, RegisterCount, ConfirmSelect,
      ApproveSelect, ToggleSelect, CreateApartment, UpdateApartment, Abort

LEMMA OneInvariant ==
  ASSUME NEW w \in Workers, Workers = {w}
  PROVE  Spec => []OneInv
<1>1. Init => OneInv
  BY DEF Init, OneInv, Good, Fresh
<1>2. TypeOK /\ OneInv /\ [Next]_vars => OneInv'
  BY OneStep
<1>3. QED
  BY <1>1, <1>2, Typing, PTL DEF Spec

\* A single worker implements the account book: reused ids, copies read before and the two
\* columns of one status change nothing of what a resident or an administrator sees.
THEOREM SingleWorkerBook ==
  ASSUME NEW w \in Workers, Workers = {w}
  PROVE  Spec => ImplementsBook
<1>1. Init => Book!Init
  BY DEF Init, Accounts, Book!Init
<1>2. TypeOK /\ OneInv /\ IdInv /\ [Next]_vars => [Book!Next]_Accounts
  BY BookStep
<1>3. QED
  BY <1>1, <1>2, Typing, IdInvariant, OneInvariant, PTL DEF Spec, ImplementsBook, Book!Spec

-----------------------------------------------------------------------------
(* Places, with a single worker *)

\* Every account is in an apartment there is.
Housed == \A i \in Ids : users[i] # NULL => apartments[users[i].apartment] # NULL

HasPlace(a) ==
    /\ apartments[a] # NULL
    /\ apartments[a].is_active
    /\ current_count(users, a) < apartments[a].limit

\* What a lone registration has read of its apartment is still so.
Places(w) ==
    /\ pc[w] = "create" => apartments[req[w].apartment] = NULL
    /\ pc[w] = "count" =>
          /\ apartments[req[w].apartment] # NULL
          /\ apartments[req[w].apartment].is_active
          /\ apartments[req[w].apartment].limit = req[w].limit
    /\ pc[w] = "insert" => HasPlace(req[w].apartment)

PlaceInv(w) == Housed /\ Places(w)

AdmitsNow ==
    \A i \in Ids :
        users'[i] # users[i] /\ users'[i] # NULL /\ users'[i].status = "pending_otp" =>
            LET a == users'[i].apartment IN
            /\ apartments'[a] # NULL /\ apartments'[a].is_active
            /\ current_count(users, a) < apartments'[a].limit

LEMMA NewApartmentIs ==
    /\ NewApartment # NULL /\ NewApartment.is_active
    /\ NewApartment.limit = max_allowed_voters /\ max_allowed_voters \in Nat
<1>1. NewApartment \in Apartment
  BY DEF NewApartment, Apartment
<1>2. NewApartment # NULL
  BY <1>1
<1>3. QED
  BY <1>2 DEF NewApartment

\* A row at the OTP stage takes no place, so deleting it frees none.
LEMMA PendingTakesNone ==
  ASSUME TypeOK, NEW i \in Ids, users[i] # NULL => users[i].status = "pending_otp", NEW a
  PROVE  current_count([users EXCEPT ![i] = NULL], a) = current_count(users, a)
<1> DEFINE table == [users EXCEPT ![i] = NULL]
<1>1. \A k \in Ids : Occupies(table[k], a) <=> Occupies(users[k], a)
  BY DEF Occupies, TypeOK
<1> HIDE DEF table
<1>2. {k \in Ids : Occupies(table[k], a)} = {k \in Ids : Occupies(users[k], a)}
  BY <1>1
<1>3. QED
  BY <1>2 DEF current_count, table

\* An apartment that is not there has no places taken.
LEMMA NobodyThere ==
  ASSUME Housed, NEW a, apartments[a] = NULL
  PROVE  current_count(users, a) = 0
<1>1. {i \in Ids : Occupies(users[i], a)} = {}
  BY DEF Housed, Occupies
<1>2. QED
  BY <1>1, FS_EmptySet DEF current_count

LEMMA PlaceStep ==
  ASSUME NEW w \in Workers, Workers = {w}, TypeOK, OneInv, PlaceInv(w), [Next]_vars
  PROVE  PlaceInv(w)' /\ AdmitsNow
<1>f. Fresh(w) /\ Housed /\ Places(w) /\ \A i \in Ids : Good(i)
  BY DEF OneInv, PlaceInv
<1>r. Return(w) => pc'[w] = "idle"
  BY DEF Return, TypeOK
<1>i. pc'[w] \notin {"create", "count", "insert"} => Places(w)'
  BY DEF Places
<1>q. ASSUME users' = users, \A a \in Apartments : apartments[a] # NULL => apartments'[a] # NULL,
             Places(w)'
      PROVE  PlaceInv(w)' /\ AdmitsNow
  <2>1. \A i \in Ids : users[i] # NULL => users[i].apartment \in Apartments
    BY DEF TypeOK, User
  <2>2. Housed'
    BY <1>f, <1>q, <2>1 DEF Housed
  <2>3. AdmitsNow
    BY <1>q DEF AdmitsNow
  <2>4. QED
    BY <1>q, <2>2, <2>3 DEF PlaceInv
<1>e. ASSUME NEW i \in Ids, users[i] # NULL, NEW u \in User, users' = [users EXCEPT ![i] = u],
             u.apartment = users[i].apartment, apartments' = apartments, pc'[w] = "idle",
             u.status # "pending_otp" \/ u = users[i]
      PROVE  PlaceInv(w)' /\ AdmitsNow
  <2>1. users'[i] = u /\ u # NULL /\ \A k \in Ids \ {i} : users'[k] = users[k]
    BY <1>e DEF TypeOK
  <2>2. Housed'
    BY <1>e, <1>f, <2>1 DEF Housed
  <2>3. AdmitsNow
    BY <1>e, <2>1 DEF AdmitsNow
  <2>4. QED
    BY <1>e, <1>i, <2>2, <2>3 DEF PlaceInv
<1>n. ASSUME NEW table \in [Ids -> User \cup {NULL}], NEW gone \in SUBSET Ids,
             NEW p \in Phones, NEW a \in Apartments,
             \A k \in Ids : table[k] = users[k] \/ table[k] = NULL,
             Insert(table, gone, p, a), pc'[w] = "idle",
             \A b \in Apartments \ {a} : apartments'[b] = apartments[b],
             apartments'[a] # NULL, apartments'[a].is_active,
             current_count(users, a) < apartments'[a].limit
      PROVE  PlaceInv(w)' /\ AdmitsNow
  <2>1. PICK n \in Ids : users' = [table EXCEPT ![n] = NewUser(p, a)]
    BY <1>n DEF Insert
  <2>2. users'[n] = NewUser(p, a) /\ \A k \in Ids \ {n} : users'[k] = table[k]
    BY <2>1
  <2>3. users'[n].apartment = a
    BY <2>2, NewRowFields
  <2>4. \A k \in Ids \ {n} : users'[k] # NULL =>
           users'[k] = users[k] /\ users[k].apartment \in Apartments
    BY <1>n, <2>2 DEF TypeOK, User
  <2>5. Housed'
    BY <1>f, <1>n, <2>3, <2>4 DEF Housed
  <2>6. AdmitsNow
    BY <1>n, <2>3, <2>4 DEF AdmitsNow
  <2>7. QED
    BY <1>i, <1>n, <2>5, <2>6 DEF PlaceInv
<1>1. CASE RegisterCreate(w)
  <2> DEFINE p == req[w].phone  a == req[w].apartment
  <2>1. p \in Phones /\ a \in Apartments /\ pc'[w] = "idle"
    BY <1>1, <1>r DEF RegisterCreate, TypeOK, Registering
  <2>2. CASE users' = users /\ apartments' = apartments
    BY <1>i, <1>q, <2>1, <2>2
  <2>3. CASE /\ apartments[a] = NULL /\ max_allowed_voters > 0
             /\ apartments' = [apartments EXCEPT ![a] = NewApartment]
             /\ Insert(users, {}, p, a)
    <3>1. current_count(users, a) = 0
      BY <1>f, <2>3, NobodyThere
    <3>2. /\ apartments'[a] = NewApartment
          /\ \A b \in Apartments \ {a} : apartments'[b] = apartments[b]
      BY <2>1, <2>3 DEF TypeOK
    <3>3. NewApartment # NULL /\ NewApartment.is_active /\ 0 < NewApartment.limit
      BY <2>3, NewApartmentIs
    <3>4. users \in [Ids -> User \cup {NULL}] /\ {} \in SUBSET Ids
      BY DEF TypeOK
    <3> HIDE DEF p, a
    <3>5. QED
      BY <1>n, <2>1, <2>3, <3>1, <3>2, <3>3, <3>4
  <2>4. QED
    BY <1>1, <2>2, <2>3 DEF RegisterCreate, Unchanged
<1>2. CASE RegisterInsert(w)
  <2> DEFINE p == req[w].phone  a == req[w].apartment
  <2>1. p \in Phones /\ a \in Apartments /\ pc'[w] = "idle" /\ apartments' = apartments
    BY <1>2, <1>r DEF RegisterInsert, TypeOK, Registering
  <2>2. HasPlace(a)
    BY <1>2, <1>f DEF RegisterInsert, Places
  <2>3. CASE users' = users
    BY <1>i, <1>q, <2>1, <2>3
  <2>4. CASE Insert(users, {}, p, a)
    <3>1. users \in [Ids -> User \cup {NULL}] /\ {} \in SUBSET Ids
      BY DEF TypeOK
    <3> HIDE DEF p, a
    <3>2. QED
      BY <1>n, <2>1, <2>2, <2>4, <3>1 DEF HasPlace
  <2>5. QED
    BY <1>2, <2>3, <2>4 DEF RegisterInsert, Unchanged
<1>3. CASE RegisterRestart(w)
  <2> DEFINE p == req[w].phone  a == req[w].apartment  i == req[w].id
  <2>1. /\ p \in Phones /\ a \in Apartments /\ i \in Ids /\ pc'[w] = "idle"
        /\ users[i] # NULL /\ users[i].status = "pending_otp"
    BY <1>3, <1>r, <1>f DEF RegisterRestart, TypeOK, Registering, HoldsId, Fresh
  <2>2. CASE users' = users /\ apartments' = apartments
    BY <1>i, <1>q, <2>1, <2>2
  <2>3. CASE /\ Admits(RestartRows(w), a)
             /\ Insert(RestartRows(w), {i}, p, a)
             /\ apartments' = [apartments EXCEPT ![a] = IF @ = NULL THEN NewApartment ELSE @]
    <3>1. /\ RestartRows(w) \in [Ids -> User \cup {NULL}]
          /\ \A k \in Ids : RestartRows(w)[k] = users[k] \/ RestartRows(w)[k] = NULL
      BY DEF RestartRows, TypeOK
    <3>2. current_count(RestartRows(w), a) = current_count(users, a)
      BY <2>1, PendingTakesNone DEF RestartRows
    <3>3. /\ apartments'[a] = IF apartments[a] = NULL THEN NewApartment ELSE apartments[a]
          /\ \A b \in Apartments \ {a} : apartments'[b] = apartments[b]
      BY <2>1, <2>3 DEF TypeOK
    <3>4. NewApartment # NULL
      BY NewApartmentIs
    <3>5. /\ apartments'[a] # NULL /\ apartments'[a].is_active
          /\ current_count(users, a) < apartments'[a].limit
      BY <2>3, <3>2, <3>3, <3>4 DEF Admits
    <3>6. {i} \in SUBSET Ids
      BY <2>1
    <3> HIDE DEF p, a, i
    <3>7. QED
      BY <1>n, <2>1, <2>3, <3>1, <3>3, <3>5, <3>6
  <2>4. QED
    BY <1>3, <2>2, <2>3 DEF RegisterRestart, RestartRows, Unchanged
<1>4. CASE ConfirmCommit(w)
  <2>1. PICK i \in Ids : i = req[w].id
    BY <1>4 DEF ConfirmCommit, TypeOK, HoldsId
  <2>2. users[i] # NULL /\ users[i] \in User
    BY <1>4, <1>f, <2>1 DEF ConfirmCommit, Fresh, TypeOK
  <2> DEFINE u == [users[i] EXCEPT !.status = "pending_approval"]
  <2>3. u \in User /\ u.apartment = users[i].apartment /\ u.status # "pending_otp"
    BY <2>2 DEF User, UserStatus
  <2>4. users' = [users EXCEPT ![i] = u] /\ apartments' = apartments /\ pc'[w] = "idle"
    BY <1>4, <1>r, <2>1, <2>2 DEF ConfirmCommit
  <2> HIDE DEF u
  <2>5. QED
    BY <1>e, <2>2, <2>3, <2>4
<1>5. CASE ApproveCommit(w)
  <2>1. PICK i \in Ids : i = req[w].id
    BY <1>5 DEF ApproveCommit, TypeOK, HoldsId
  <2>2. users[i] # NULL /\ users[i] \in User
    BY <1>5, <1>f, <2>1 DEF ApproveCommit, Fresh, TypeOK
  <2> DEFINE u == [users[i] EXCEPT !.status = "approved", !.password_hash = "bcrypt"]
  <2>3. u \in User /\ u.apartment = users[i].apartment /\ u.status # "pending_otp"
    BY <2>2 DEF User, UserStatus
  <2>4. users' = [users EXCEPT ![i] = u] /\ apartments' = apartments /\ pc'[w] = "idle"
    BY <1>5, <1>r, <2>1, <2>2 DEF ApproveCommit
  <2> HIDE DEF u
  <2>5. QED
    BY <1>e, <2>2, <2>3, <2>4
<1>6. ASSUME NEW i \in Ids, RejectUser(w, i) PROVE PlaceInv(w)' /\ AdmitsNow
  <2>1. users[i] # NULL /\ users[i] \in User
    BY <1>6 DEF RejectUser, TypeOK
  <2> DEFINE u == [users[i] EXCEPT !.status = "rejected"]
  <2>2. u \in User /\ u.apartment = users[i].apartment /\ u.status # "pending_otp"
    BY <2>1 DEF User, UserStatus
  <2>3. users' = [users EXCEPT ![i] = u] /\ apartments' = apartments /\ pc'[w] = "idle"
    BY <1>6 DEF RejectUser
  <2> HIDE DEF u
  <2>4. QED
    BY <1>e, <2>1, <2>2, <2>3
<1>7. CASE ToggleCommit(w)
  <2> DEFINE r == req[w]  s == ToggledStatus(r.active, r.status)
  <2>1. PICK i \in Ids : i = r.id
    BY <1>7 DEF ToggleCommit, TypeOK, HoldsId
  <2>2. /\ users[i] # NULL /\ users[i] \in User /\ r \in Request
        /\ users[i].status = r.status /\ users[i].is_active = r.is_active
    BY <1>7, <1>f, <2>1 DEF ToggleCommit, Fresh, TypeOK
  <2> DEFINE b == IF r.active = r.is_active THEN users[i].is_active ELSE r.active
             t == IF s = r.status THEN users[i].status ELSE s
             u == [users[i] EXCEPT !.is_active = b, !.status = t]
  <2>3. b \in BOOLEAN /\ b = r.active /\ t = s /\ s \in UserStatus
    BY <2>2 DEF User, Request, ToggledStatus, UserStatus
  <2>4. users' = [users EXCEPT ![i] = u] /\ apartments' = apartments /\ pc'[w] = "idle"
    BY <1>7, <1>r, <2>1, <2>2 DEF ToggleCommit
  <2>5. s = "pending_otp" => r.active /\ users[i].status = "pending_otp"
    BY <2>2 DEF ToggledStatus
  <2>6. users[i].status = "pending_otp" => users[i].is_active
    BY <1>f, <2>2 DEF Good
  <2>7. s = "pending_otp" => b = users[i].is_active /\ t = users[i].status
    BY <2>2, <2>5, <2>6
  <2>8. \A u0 \in User : [u0 EXCEPT !.is_active = u0.is_active, !.status = u0.status] = u0
    BY DEF User
  <2> HIDE DEF b, s, t
  <2>9. /\ u \in User /\ u.apartment = users[i].apartment /\ u.status = s
    BY <2>2, <2>3 DEF User
  <2>10. s = "pending_otp" => u = users[i]
    BY <2>2, <2>7, <2>8
  <2> HIDE DEF u
  <2>11. QED
    BY <1>e, <2>2, <2>4, <2>9, <2>10
<1>8. CASE RegisterApartment(w)
  <2> DEFINE a == req[w].apartment
  <2>1. users' = users /\ apartments' = apartments /\ a \in Apartments /\ req[w] \in Request
    BY <1>8 DEF RegisterApartment, Unchanged, TypeOK, Registering
  <2>2. CASE apartments[a] = NULL /\ pc'[w] = "create" /\ req'[w] = req[w]
    BY <1>q, <2>1, <2>2 DEF Places
  <2>3. CASE /\ apartments[a] # NULL /\ apartments[a].is_active /\ pc'[w] = "count"
             /\ req'[w] = [req[w] EXCEPT !.limit = apartments[a].limit]
    <3>1. req'[w].apartment = a /\ req'[w].limit = apartments[a].limit
      BY <2>1, <2>3 DEF Request
    <3>2. Places(w)'
      BY <2>1, <2>3, <3>1 DEF Places
    <3>3. QED
      BY <1>q, <2>1, <3>2
  <2>4. CASE pc'[w] = "idle"
    BY <1>i, <1>q, <2>1, <2>4
  <2>5. QED
    BY <1>8, <1>r, <2>2, <2>3, <2>4 DEF RegisterApartment, TypeOK
<1>9. CASE RegisterCount(w)
  <2> DEFINE a == req[w].apartment
  <2>1. users' = users /\ apartments' = apartments
    BY <1>9 DEF RegisterCount, Unchanged
  <2>2. CASE pc'[w] = "idle"
    BY <1>i, <1>q, <2>1, <2>2
  <2>3. CASE /\ pc[w] = "count" /\ current_count(users, a) < req[w].limit
             /\ pc'[w] = "insert" /\ req'[w] = req[w]
    <3>1. HasPlace(a)
      BY <1>f, <2>3 DEF Places, HasPlace
    <3>2. HasPlace(a)'
      BY <2>1, <2>3, <3>1 DEF HasPlace, current_count
    <3>3. Places(w)'
      BY <2>3, <3>2 DEF Places
    <3>4. QED
      BY <1>q, <2>1, <3>3
  <2>4. QED
    BY <1>9, <1>r, <2>2, <2>3 DEF RegisterCount, TypeOK
<1>10. ASSUME NEW a \in Apartments, NEW limit \in VoterLimits, NEW is_active \in BOOLEAN,
              CreateApartment(w, a, limit) \/ UpdateApartment(w, a, limit, is_active)
       PROVE  PlaceInv(w)' /\ AdmitsNow
  <2>1. users' = users /\ pc'[w] = "idle"
    BY <1>10 DEF CreateApartment, UpdateApartment
  <2>2. ASSUME NEW row \in Apartment, apartments' = [apartments EXCEPT ![a] = row]
        PROVE  PlaceInv(w)' /\ AdmitsNow
    <3>1. \A b \in Apartments : apartments[b] # NULL => apartments'[b] # NULL
      BY <2>2 DEF TypeOK
    <3>2. QED
      BY <1>i, <1>q, <2>1, <3>1
  <2>3. /\ [limit |-> limit, is_active |-> TRUE] \in Apartment
        /\ [limit |-> limit, is_active |-> is_active] \in Apartment
    BY DEF Apartment
  <2>4. ASSUME apartments[a] # NULL
        PROVE  /\ [apartments[a] EXCEPT !.limit = limit] \in Apartment
               /\ [apartments[a] EXCEPT !.is_active = is_active] \in Apartment
    <3>1. apartments[a] \in Apartment
      BY <2>4 DEF TypeOK
    <3>2. QED
      BY <3>1 DEF Apartment
  <2>5. QED
    BY <1>10, <2>2, <2>3, <2>4 DEF CreateApartment, UpdateApartment
<1>11. ASSUME users' = users, apartments' = apartments,
              \/ pc'[w] \notin {"create", "count", "insert"}
              \/ UNCHANGED <<pc, req>>
       PROVE  PlaceInv(w)' /\ AdmitsNow
  <2>1. Places(w)'
    BY <1>11, <1>f, <1>i DEF Places, HasPlace, current_count
  <2>2. QED
    BY <1>11, <1>q, <2>1
<1>12. ASSUME \/ \E p \in Phones, a \in Apartments : RegisterSelect(w, p, a)
              \/ \E p \in Phones : ConfirmSelect(w, p)
              \/ \E i \in Ids : ApproveSelect(w, i)
              \/ \E i \in Ids, active \in BOOLEAN : ToggleSelect(w, i, active)
              \/ Abort(w)
       PROVE  PlaceInv(w)' /\ AdmitsNow
  <2>1. /\ users' = users /\ apartments' = apartments
        /\ pc'[w] \in {"idle", "apartment", "restart", "confirm", "approve", "toggle"}
    BY <1>12, <1>r DEF RegisterSelect, ConfirmSelect, ApproveSelect, ToggleSelect, Abort, Start,
                      Unchanged, TypeOK
  <2>2. QED
    BY <1>11, <2>1
<1>13. QED
  <2>1. CASE UNCHANGED vars
    BY <1>11, <2>1 DEF vars
  <2>2. QED
    BY <1>1, <1>2, <1>3, <1>4, <1>5, <1>6, <1>7, <1>8, <1>9, <1>10, <1>12, <2>1 DEF Next

\* With one worker no registration is let in, or started afresh, in an apartment that is
\* full or switched off, though the count and the INSERT are two steps.
THEOREM SingleWorkerLimit ==
  ASSUME NEW w \in Workers, Workers = {w}
  PROVE  Spec => AdmittedWithinLimit
<1>1. Init => PlaceInv(w)
  BY DEF Init, PlaceInv, Housed, Places
<1>2. TypeOK /\ OneInv /\ PlaceInv(w) /\ [Next]_vars => PlaceInv(w)' /\ [AdmitsNow]_vars
  BY PlaceStep
<1>3. [AdmitsNow]_vars =>
         [\A i \in Ids :
            users'[i] # users[i] /\ users'[i] # NULL /\ users'[i].status = "pending_otp" =>
                LET a == users'[i].apartment IN
                /\ apartments'[a] # NULL /\ apartments'[a].is_active
                /\ current_count(users, a) < apartments'[a].limit]_vars
  BY DEF AdmitsNow
<1>4. QED
  BY <1>1, <1>2, <1>3, Typing, OneInvariant, PTL DEF Spec, AdmittedWithinLimit

=============================================================================
