------------------------------- MODULE Residents -------------------------------
(***************************************************************************)
(* The life of a resident's account and of the apartments: register_user   *)
(* and confirm_registration_otp of backend/services/auth_service.py, the   *)
(* user and apartment operations of backend/services/admin_service.py, run *)
(* by several gunicorn workers on one SQLite file.                         *)
(*                                                                         *)
(* A step is one SELECT (autocommitted) or one write transaction (from the *)
(* first INSERT, UPDATE or DELETE to the COMMIT).  An UPDATE writes the    *)
(* columns the handler changed, by primary key; on a row that is gone it   *)
(* raises StaleDataError and the handler ends.  A request refused by its   *)
(* first SELECT stutters.  Any phone can obtain a registration code        *)
(* (/auth/resend-otp), so a confirmation may come at any time.             *)
(***************************************************************************)
EXTENDS Integers, FiniteSets

CONSTANTS
    Phones, Apartments, Workers,
    VoterLimits,            \* the limits an administrator sets
    max_allowed_voters,     \* the column's default: the limit of an apartment that a
                            \* registration creates
    MaxId,                  \* bound: the highest users.id
    NULL

VARIABLES
    apartments,     \* the table: apartment -> row, or NULL
    users,          \* the table: id -> row, or NULL
    pc,             \* per worker: where the running handler is
    req,            \* per worker: what was asked and what was read
    verified,       \* history: ids whose present row passed the phone check
    owner           \* history: the first phone each id was given to

vars == <<apartments, users, pc, req, verified, owner>>

Ids == 1 .. MaxId

UserStatus == {"pending_otp", "pending_approval", "approved", "rejected", "disabled"}

User == [phone : Phones, apartment : Apartments, status : UserStatus,
         is_active : BOOLEAN, password_hash : {NULL, "bcrypt"}]

Apartment == [limit : Nat, is_active : BOOLEAN]

\* limit, status, is_active: as read; active: the argument of toggle_user.
Request == [phone : Phones \cup {NULL}, apartment : Apartments \cup {NULL},
            id : Ids \cup {NULL}, limit : Nat, active : BOOLEAN,
            status : UserStatus, is_active : BOOLEAN]

NoRequest == [phone |-> NULL, apartment |-> NULL, id |-> NULL, limit |-> 0,
              active |-> FALSE, status |-> "pending_otp", is_active |-> TRUE]

ASSUME ResidentsAssumption ==
    /\ VoterLimits \subseteq Nat
    /\ max_allowed_voters \in Nat
    /\ MaxId \in Nat
    /\ NULL \notin Phones \cup Apartments \cup Ids \cup User \cup Apartment \cup {"bcrypt"}

Registering == {"apartment", "create", "count", "insert", "restart"}
HoldsId == {"restart", "confirm", "approve", "toggle"}

TypeOK ==
    /\ apartments \in [Apartments -> Apartment \cup {NULL}]
    /\ users \in [Ids -> User \cup {NULL}]
    /\ pc \in [Workers -> {"idle"} \cup Registering \cup HoldsId]
    /\ req \in [Workers -> Request]
    /\ \A w \in Workers :
          /\ pc[w] \in Registering => req[w].phone \in Phones /\ req[w].apartment \in Apartments
          /\ pc[w] \in HoldsId => req[w].id \in Ids
    /\ verified \subseteq Ids
    /\ owner \in [Ids -> Phones \cup {NULL}]

Init ==
    /\ apartments \in [Apartments -> [limit : VoterLimits, is_active : {TRUE}] \cup {NULL}]
    /\ users = [i \in Ids |-> NULL]
    /\ pc = [w \in Workers |-> "idle"]
    /\ req = [w \in Workers |-> NoRequest]
    /\ verified = {}
    /\ owner = [i \in Ids |-> NULL]

Start(w, label, request) ==
    /\ pc[w] = "idle"
    /\ pc' = [pc EXCEPT ![w] = label]
    /\ req' = [req EXCEPT ![w] = request]

Return(w) ==
    /\ pc' = [pc EXCEPT ![w] = "idle"]
    /\ req' = [req EXCEPT ![w] = NoRequest]

-----------------------------------------------------------------------------
(* register_user *)

HasPhone(rows, i, p) == rows[i] # NULL /\ rows[i].phone = p

PhoneFree(rows, p) == \A i \in Ids : ~HasPhone(rows, i, p)

\* Variant: the column is not unique, the SELECT alone guards the INSERT.
PhoneUnchecked(rows, p) == TRUE

\* UNIQUE (phone_number)
PhoneUnique(rows, p) == PhoneFree(rows, p)

\* Rows that count against an apartment's limit.
Occupies(u, a) ==
    /\ u # NULL
    /\ u.apartment = a
    /\ u.status \in {"pending_approval", "approved"}
    /\ u.is_active

current_count(rows, a) == Cardinality({i \in Ids : Occupies(rows[i], a)})

\* SQLite gives an INTEGER PRIMARY KEY the highest rowid plus one.
NextId(rows, n) ==
    /\ n \in Ids
    /\ n > 1 => rows[n - 1] # NULL
    /\ \A i \in Ids : rows[i] # NULL => i < n

NewUser(p, a) == [phone |-> p, apartment |-> a, status |-> "pending_otp",
                  is_active |-> TRUE, password_hash |-> NULL]

NewApartment == [limit |-> max_allowed_voters, is_active |-> TRUE]

Insert(rows, gone, p, a) ==
    \E n \in Ids :
        /\ NextId(rows, n)
        /\ users' = [rows EXCEPT ![n] = NewUser(p, a)]
        /\ verified' = verified \ (gone \cup {n})
        /\ owner' = [owner EXCEPT ![n] = IF owner[n] = NULL THEN p ELSE owner[n]]

Unchanged == UNCHANGED <<users, verified, owner>>

\* Variant: a registration is restarted whatever its status.
RegisterSelectAny(w, p, a) ==
    /\ \/ /\ PhoneFree(users, p)
          /\ Start(w, "apartment", [NoRequest EXCEPT !.phone = p, !.apartment = a])
       \/ \E i \in Ids :
             /\ HasPhone(users, i, p)
             /\ Start(w, "restart", [NoRequest EXCEPT !.phone = p, !.apartment = a, !.id = i])
    /\ UNCHANGED apartments /\ Unchanged

\* Is the phone known?  A row past the OTP stage refuses the request.
RegisterSelect(w, p, a) ==
    /\ \/ /\ PhoneFree(users, p)
          /\ Start(w, "apartment", [NoRequest EXCEPT !.phone = p, !.apartment = a])
       \/ \E i \in Ids :
             /\ HasPhone(users, i, p)
             /\ users[i].status = "pending_otp"
             /\ Start(w, "restart", [NoRequest EXCEPT !.phone = p, !.apartment = a, !.id = i])
    /\ UNCHANGED apartments /\ Unchanged

\* The apartment is read.
RegisterApartment(w) ==
    LET a == req[w].apartment IN
    /\ pc[w] = "apartment"
    /\ \/ /\ apartments[a] = NULL
          /\ pc' = [pc EXCEPT ![w] = "create"]
          /\ UNCHANGED req
       \/ /\ apartments[a] # NULL /\ apartments[a].is_active
          /\ pc' = [pc EXCEPT ![w] = "count"]
          /\ req' = [req EXCEPT ![w] = [req[w] EXCEPT !.limit = apartments[a].limit]]
       \/ /\ apartments[a] # NULL /\ ~apartments[a].is_active
          /\ Return(w)
    /\ UNCHANGED apartments /\ Unchanged

\* A missing apartment is inserted in one transaction with the user.  Either row may
\* meet its UNIQUE constraint, and the limit may be 0: nothing is kept then.
RegisterCreate(w) ==
    LET p == req[w].phone  a == req[w].apartment
        possible == apartments[a] = NULL /\ PhoneUnique(users, p) /\ max_allowed_voters > 0 IN
    /\ pc[w] = "create"
    /\ \/ /\ possible
          /\ apartments' = [apartments EXCEPT ![a] = NewApartment]
          /\ Insert(users, {}, p, a)
       \/ ~possible /\ UNCHANGED apartments /\ Unchanged
    /\ Return(w)

\* Variant: a full apartment takes one more.
RegisterCountOneMore(w) ==
    LET count == current_count(users, req[w].apartment) IN
    /\ pc[w] = "count"
    /\ \/ count > req[w].limit /\ Return(w)
       \/ count <= req[w].limit /\ pc' = [pc EXCEPT ![w] = "insert"] /\ UNCHANGED req
    /\ UNCHANGED apartments /\ Unchanged

\* The occupied places are counted.
RegisterCount(w) ==
    /\ pc[w] = "count"
    /\ \/ /\ current_count(users, req[w].apartment) >= req[w].limit
          /\ Return(w)
       \/ /\ current_count(users, req[w].apartment) < req[w].limit
          /\ pc' = [pc EXCEPT ![w] = "insert"]
          /\ UNCHANGED req
    /\ UNCHANGED apartments /\ Unchanged

\* INSERT user, COMMIT
RegisterInsert(w) ==
    LET p == req[w].phone IN
    /\ pc[w] = "insert"
    /\ \/ PhoneUnique(users, p) /\ Insert(users, {}, p, req[w].apartment)
       \/ ~PhoneUnique(users, p) /\ Unchanged
    /\ Return(w)
    /\ UNCHANGED apartments

\* Can the apartment take the registration, within the transaction that sees rows?
Admits(rows, a) ==
    LET apt == IF apartments[a] = NULL THEN NewApartment ELSE apartments[a] IN
    apt.is_active /\ current_count(rows, a) < apt.limit

\* Variant: the DELETE is committed before the rest is decided.
RegisterRestartTorn(w) ==
    LET p == req[w].phone  a == req[w].apartment  i == req[w].id
        rows == [users EXCEPT ![i] = NULL] IN
    /\ pc[w] = "restart"
    /\ \/ /\ PhoneUnique(rows, p) /\ Admits(rows, a)
          /\ Insert(rows, {i}, p, a)
          /\ apartments' = [apartments EXCEPT ![a] = IF @ = NULL THEN NewApartment ELSE @]
       \/ /\ ~(PhoneUnique(rows, p) /\ Admits(rows, a))
          /\ users' = rows
          /\ UNCHANGED <<apartments, verified, owner>>
    /\ Return(w)

\* The row read before is deleted by its id, and the registration starts afresh: one
\* transaction, rolled back when the apartment refuses or the phone is taken.
RegisterRestart(w) ==
    LET p == req[w].phone  a == req[w].apartment  i == req[w].id
        rows == [users EXCEPT ![i] = NULL] IN
    /\ pc[w] = "restart"
    /\ \/ /\ PhoneUnique(rows, p) /\ Admits(rows, a)
          /\ Insert(rows, {i}, p, a)
          /\ apartments' = [apartments EXCEPT ![a] = IF @ = NULL THEN NewApartment ELSE @]
       \/ /\ ~(PhoneUnique(rows, p) /\ Admits(rows, a))
          /\ UNCHANGED apartments /\ Unchanged
    /\ Return(w)

-----------------------------------------------------------------------------
(* confirm_registration_otp *)

\* Variant: the phone's row is confirmed whatever its status.
ConfirmSelectAny(w, p) ==
    \E i \in Ids :
        /\ HasPhone(users, i, p)
        /\ Start(w, "confirm", [NoRequest EXCEPT !.phone = p, !.id = i])
        /\ UNCHANGED apartments /\ Unchanged

ConfirmSelect(w, p) ==
    \E i \in Ids :
        /\ HasPhone(users, i, p)
        /\ users[i].status = "pending_otp"
        /\ Start(w, "confirm", [NoRequest EXCEPT !.phone = p, !.id = i])
        /\ UNCHANGED apartments /\ Unchanged

\* UPDATE users SET status, COMMIT
ConfirmCommit(w) ==
    LET i == req[w].id IN
    /\ pc[w] = "confirm"
    /\ \/ /\ users[i] # NULL
          /\ users' = [users EXCEPT ![i] = [users[i] EXCEPT !.status = "pending_approval"]]
          /\ verified' = verified \cup {i}
          /\ UNCHANGED owner
       \/ users[i] = NULL /\ Unchanged
    /\ Return(w)
    /\ UNCHANGED apartments

-----------------------------------------------------------------------------
(* Administrators *)

ApproveSelect(w, i) ==
    /\ users[i] # NULL
    /\ users[i].status = "pending_approval"
    /\ Start(w, "approve", [NoRequest EXCEPT !.id = i])
    /\ UNCHANGED apartments /\ Unchanged

\* A password is generated and hashed; UPDATE users, COMMIT.
ApproveCommit(w) ==
    LET i == req[w].id IN
    /\ pc[w] = "approve"
    /\ users' = IF users[i] = NULL THEN users
                ELSE [users EXCEPT ![i] = [users[i] EXCEPT !.status = "approved",
                                                          !.password_hash = "bcrypt"]]
    /\ Return(w)
    /\ UNCHANGED <<apartments, verified, owner>>

\* reject_user: whatever the status.  One column is set whatever was read, so the
\* SELECT and the UPDATE are one step.
RejectUser(w, i) ==
    /\ pc[w] = "idle"
    /\ users[i] # NULL
    /\ users' = [users EXCEPT ![i] = [users[i] EXCEPT !.status = "rejected"]]
    /\ UNCHANGED <<apartments, pc, req, verified, owner>>

ToggleSelect(w, i, active) ==
    /\ users[i] # NULL
    /\ Start(w, "toggle", [NoRequest EXCEPT !.id = i, !.active = active,
                              !.status = users[i].status, !.is_active = users[i].is_active])
    /\ UNCHANGED apartments /\ Unchanged

\* Variant: enabling sends the account back to the administrators.
ToggledStatusReview(active, read) ==
    IF ~active THEN "disabled" ELSE IF read = "disabled" THEN "pending_approval" ELSE read

\* Variant: disabling leaves the status alone.
ToggledStatusEnabled(active, read) ==
    IF active /\ read = "disabled" THEN "approved" ELSE read

\* The status after toggle_user(active) of an account read with a status.
ToggledStatus(active, read) ==
    IF ~active THEN "disabled" ELSE IF read = "disabled" THEN "approved" ELSE read

\* The columns that differ from what was read are written.
ToggleCommit(w) ==
    LET r == req[w]  i == r.id  new == ToggledStatus(r.active, r.status) IN
    /\ pc[w] = "toggle"
    /\ users' = IF users[i] = NULL THEN users
                ELSE [users EXCEPT ![i] = [users[i] EXCEPT
                        !.is_active = IF r.active = r.is_active THEN users[i].is_active ELSE r.active,
                        !.status = IF new = r.status THEN users[i].status ELSE new]]
    /\ Return(w)
    /\ UNCHANGED <<apartments, verified, owner>>

\* create_apartment
CreateApartment(w, a, limit) ==
    /\ pc[w] = "idle"
    /\ apartments[a] = NULL
    /\ apartments' = [apartments EXCEPT ![a] = [limit |-> limit, is_active |-> TRUE]]
    /\ UNCHANGED <<users, pc, req, verified, owner>>

\* update_apartment: either column, or both.
UpdateApartment(w, a, limit, is_active) ==
    /\ pc[w] = "idle"
    /\ apartments[a] # NULL
    /\ \/ apartments' = [apartments EXCEPT ![a] = [limit |-> limit, is_active |-> is_active]]
       \/ apartments' = [apartments EXCEPT ![a] = [apartments[a] EXCEPT !.limit = limit]]
       \/ apartments' = [apartments EXCEPT ![a] = [apartments[a] EXCEPT !.is_active = is_active]]
    /\ UNCHANGED <<users, pc, req, verified, owner>>

\* The handler or its worker dies between two steps; nothing uncommitted survives.
Abort(w) ==
    /\ pc[w] # "idle"
    /\ Return(w)
    /\ UNCHANGED apartments /\ Unchanged

Next ==
    \E w \in Workers :
        \/ \E p \in Phones, a \in Apartments : RegisterSelect(w, p, a)
        \/ RegisterApartment(w)
        \/ RegisterCreate(w)
        \/ RegisterCount(w)
        \/ RegisterInsert(w)
        \/ RegisterRestart(w)
        \/ \E p \in Phones : ConfirmSelect(w, p)
        \/ ConfirmCommit(w)
        \/ \E i \in Ids : ApproveSelect(w, i)
        \/ ApproveCommit(w)
        \/ \E i \in Ids : RejectUser(w, i)
        \/ \E i \in Ids, active \in BOOLEAN : ToggleSelect(w, i, active)
        \/ ToggleCommit(w)
        \/ \E a \in Apartments, limit \in VoterLimits : CreateApartment(w, a, limit)
        \/ \E a \in Apartments, limit \in VoterLimits, is_active \in BOOLEAN :
              UpdateApartment(w, a, limit, is_active)
        \/ Abort(w)

Spec == Init /\ [][Next]_vars

-----------------------------------------------------------------------------
(* Properties *)

\* However many workers register the same phone at once, one account results
\* (auth_service.py:78-91, user.py:27).
OneAccountPerPhone ==
    \A i, j \in Ids : users[i] # NULL /\ users[j] # NULL /\ users[i].phone = users[j].phone => i = j

\* A restarted registration deletes a row and SQLite may give its id again, but never
\* to another phone: a user id held elsewhere (a pending list, an audit row, a token)
\* does not come to mean somebody else (auth_service.py:83-86, 119-126).
IdKeepsPhone == \A i \in Ids : users[i] # NULL => users[i].phone = owner[i]

\* One worker: the two columns that say whether an account is on never disagree, so
\* the places counted, the log-in check and the token check see the same accounts
\* (admin_service.py:113-117 against auth_service.py:104-105, 267).
FlagMatchesStatus ==
    \A i \in Ids : users[i] # NULL =>
        /\ users[i].status = "disabled" => ~users[i].is_active
        /\ users[i].status \in {"pending_otp", "pending_approval", "approved"} => users[i].is_active

\* README.md:137-143: one worker: only the registration whose phone was verified gets a
\* password, across restarts of the registration under the same id.
CredentialsFollowVerification ==
    \A i \in Ids : users[i] # NULL /\ users[i].password_hash # NULL => i \in verified

\* auth_service.py:78 "Block re-registration if already past OTP stage": an account past
\* that stage is never deleted.
PastOtpKept ==
    [][\A i \in Ids : users[i] # NULL /\ users[i].status # "pending_otp"
          => users'[i] # NULL /\ users'[i].status # "pending_otp"]_vars

\* A rejected account does not come back by an approval or a confirmation that was
\* under way: only disabling and enabling it does (admin_service.py:51-55, 90-91).
RejectionSticks ==
    [][\A i \in Ids : users[i] # NULL /\ users[i].status = "rejected"
          => users'[i] # NULL /\ users'[i].status \in {"rejected", "disabled"}]_vars

\* One worker: a registration is let in, or started afresh, only in an active apartment in
\* which a place is free at that moment, whatever was read before (auth_service.py:93-117).
AdmittedWithinLimit ==
    [][\A i \in Ids :
        users'[i] # users[i] /\ users'[i] # NULL /\ users'[i].status = "pending_otp" =>
            LET a == users'[i].apartment IN
            /\ apartments'[a] # NULL /\ apartments'[a].is_active
            /\ current_count(users, a) < apartments'[a].limit]_vars

\* The account book that the tables stand for: an entry per row, without its id.
EntryOf(i) == [phone |-> users[i].phone, apartment |-> users[i].apartment,
               status |-> users[i].status, checked |-> i \in verified,
               password |-> users[i].password_hash # NULL]

Accounts == {EntryOf(i) : i \in {j \in Ids : users[j] # NULL}}

Book == INSTANCE AccountBook WITH book <- Accounts

\* One worker: ids that are freed and given again, copies read earlier and two columns for
\* one status amount to the book of AccountBook, entry by entry (auth_service.py:78-168,
\* admin_service.py:42-130).
ImplementsBook == Book!Spec

\* auth_service.py:98 "Enforce voter limit per apartment (approved + pending-approval
\* only)", README.md:171 "Set per-apartment voter limits".
ApartmentLimit ==
    \A a \in Apartments : apartments[a] # NULL => current_count(users, a) <= apartments[a].limit

\* README.md:143 "Admin approves → Password auto-generated", user.py:28 "password_hash is
\* NULL until admin approves and generates credentials": an approved account has one.
ApprovedHasCredentials ==
    \A i \in Ids : users[i] # NULL /\ users[i].status = "approved" => users[i].password_hash # NULL
=============================================================================
