------------------------------ MODULE OtpService ------------------------------
(***************************************************************************)
(* backend/services/otp_service.py over the otp_logs table                 *)
(* (backend/models/otp.py): two-phase creation of a one-time password and  *)
(* its verification, run by several gunicorn workers on one SQLite file.   *)
(*                                                                         *)
(* Grain of atomicity.  A SELECT is autocommitted and sees the last        *)
(* committed state; the first UPDATE or INSERT takes the write lock, which *)
(* is held to the COMMIT.  So a step is one SELECT, or one "write ...      *)
(* commit" block.  Handlers are `async def` with a synchronous body: one   *)
(* worker process never interleaves two of them.                           *)
(*                                                                         *)
(* A refused request (rate limit, no live OTP) changes nothing and is a    *)
(* stuttering step: it has no action of its own.                           *)
(***************************************************************************)
EXTENDS Integers, Sequences, FiniteSets

CONSTANTS
    Phones, Codes, Workers,
    VALID_PURPOSES,        \* otp_service.py:25
    Entry,                 \* "create" (the routes) and "send" (send_otp)
    OTP_MAX_RETRIES,       \* config.py:22
    OTP_RATE_LIMIT,        \* OTP_RATE_LIMIT_SECONDS, in ticks
    OTP_EXPIRY,            \* OTP_EXPIRY_MINUTES, in ticks
    MaxTime,               \* bound: the clock stops here
    MaxLogs,               \* bound: rows written and about to be written
    NULL

ASSUME OtpAssumption ==
    /\ OTP_MAX_RETRIES \in Nat \ {0}
    /\ Entry \subseteq {"create", "send"}
    /\ OTP_RATE_LIMIT \in Nat
    /\ OTP_EXPIRY \in Nat
    /\ MaxTime \in Nat
    /\ MaxLogs \in Nat

VARIABLES
    now,        \* datetime.utcnow(), shared by all workers
    otp_logs,   \* the table; the position of a row is its id
    pc,         \* per worker: where the running handler is
    req,        \* per worker: what was asked, and the row as it was loaded
    outbox,     \* background tasks queued after a response, not yet run
    ghost,      \* history, per row: who created it, guesses compared, delivery failed
    accepts     \* history: the successful verifications, in commit order

vars == <<now, otp_logs, pc, req, outbox, ghost, accepts>>

Rows == 1 .. Len(otp_logs)

\* An HMAC keyed by a secret is modelled as a term: injective in both arguments.
hash_otp(otp, phone) == <<otp, phone>>

OTPLog == [phone_number : Phones, purpose : VALID_PURPOSES,
           otp_hash : Codes \X Phones,
           attempts : 0 .. OTP_MAX_RETRIES, verified : BOOLEAN,
           is_active : BOOLEAN, created_at : Nat, expiry_time : Nat]

Message == [worker : Workers, phone : Phones, purpose : VALID_PURPOSES, otp : Codes]

Request == [phone : Phones \cup {NULL}, purpose : VALID_PURPOSES \cup {NULL},
            otp : Codes \cup {NULL}, log : Nat, attempts : Nat]

NoRequest == [phone |-> NULL, purpose |-> NULL, otp |-> NULL, log |-> 0, attempts |-> 0]

Ghost == [creator : Workers, guesses : Nat]

Acceptance == [worker : Workers, log : Nat]

Creating == {"create", "send", "sending"}
Verifying == {"exhaust", "count", "compare"}

TypeOK ==
    /\ now \in Nat
    /\ otp_logs \in Seq(OTPLog)
    /\ pc \in [Workers -> {"idle"} \cup Creating \cup Verifying]
    /\ req \in [Workers -> Request]
    /\ \A w \in Workers :
          /\ pc[w] \in Creating =>
                req[w].phone \in Phones /\ req[w].purpose \in VALID_PURPOSES
          /\ pc[w] \in Verifying => req[w].log \in Rows
          /\ pc[w] = "count" => req[w].attempts < OTP_MAX_RETRIES
    /\ outbox \subseteq Message
    /\ ghost \in Seq(Ghost)
    /\ Len(ghost) = Len(otp_logs)
    /\ accepts \in Seq(Acceptance)

Init ==
    /\ now = 0
    /\ otp_logs = <<>>
    /\ pc = [w \in Workers |-> "idle"]
    /\ req = [w \in Workers |-> NoRequest]
    /\ outbox = {}
    /\ ghost = <<>>
    /\ accepts = <<>>

\* The handler is over; its locals and its session are gone.
Return(w) ==
    /\ pc' = [pc EXCEPT ![w] = "idle"]
    /\ req' = [req EXCEPT ![w] = NoRequest]

-----------------------------------------------------------------------------
(* Helpers *)

SameKey(row, phone, purpose) == row.phone_number = phone /\ row.purpose = purpose

\* Variant: the limit looks at live OTPs only, so using one resets it.
check_rate_limit_live_only(phone, purpose) ==
    ~ \E i \in Rows : /\ SameKey(otp_logs[i], phone, purpose)
                      /\ otp_logs[i].is_active
                      /\ otp_logs[i].created_at > now - OTP_RATE_LIMIT

check_rate_limit(phone, purpose) ==
    ~ \E i \in Rows : /\ SameKey(otp_logs[i], phone, purpose)
                      /\ otp_logs[i].created_at > now - OTP_RATE_LIMIT

\* Variant: the bulk UPDATE is forgotten.
invalidate_nothing(phone, purpose) == otp_logs

invalidate_existing(phone, purpose) ==
    [i \in Rows |-> IF SameKey(otp_logs[i], phone, purpose)
                    THEN [otp_logs[i] EXCEPT !.is_active = FALSE]
                    ELSE otp_logs[i]]

NewLog(phone, purpose, otp) ==
    [phone_number |-> phone, purpose |-> purpose, otp_hash |-> hash_otp(otp, phone),
     attempts |-> 0, verified |-> FALSE, is_active |-> TRUE,
     created_at |-> now, expiry_time |-> now + OTP_EXPIRY]

\* The rows the SELECT of verify_otp may return first.
Live(i, phone, purpose) ==
    /\ SameKey(otp_logs[i], phone, purpose)
    /\ otp_logs[i].is_active
    /\ ~otp_logs[i].verified
    /\ otp_logs[i].expiry_time > now

\* Variant: one comparison too many.
AttemptsLeftOffByOne(attempts) == attempts <= OTP_MAX_RETRIES

AttemptsLeft(attempts) == attempts < OTP_MAX_RETRIES

\* Variant: the UPDATE writes back every column of the row as it was loaded.
CountedWholeRow(row, read) == [row EXCEPT !.attempts = read + 1, !.is_active = TRUE]

\* Variant: the increment is not committed before the comparison.
CountedUncommitted(row, read) == row

\* Only the changed column is written, as an absolute value of the copy read.
Counted(row, read) == [row EXCEPT !.attempts = read + 1]

\* Variant: a used OTP is left as it was.
MarkedUnused(row) == row

MarkedUsed(row) == [row EXCEPT !.verified = TRUE, !.is_active = FALSE]

-----------------------------------------------------------------------------
(* create_otp and dispatch_to_provider *)

\* The SELECT of the rate limit.  "create" is what the routes call; "send" is
\* send_otp, which goes on to call the provider inline.
CreateOtp(w, phone, purpose, entry) ==
    /\ pc[w] = "idle"
    /\ Len(otp_logs) + Cardinality({v \in Workers : pc[v] \in {"create", "send"}}) < MaxLogs
    /\ check_rate_limit(phone, purpose)
    /\ pc' = [pc EXCEPT ![w] = entry]
    /\ req' = [req EXCEPT ![w] = [NoRequest EXCEPT !.phone = phone, !.purpose = purpose]]
    /\ UNCHANGED <<now, otp_logs, outbox, ghost, accepts>>

\* Variant: the message is queued although the INSERT was rolled back.
CreateWriteLost(w) ==
    /\ pc[w] \in {"create", "send"}
    /\ \E otp \in Codes :
          outbox' = outbox \cup {[worker |-> w, phone |-> req[w].phone,
                                  purpose |-> req[w].purpose, otp |-> otp]}
    /\ Return(w)
    /\ UNCHANGED <<now, otp_logs, ghost, accepts>>

\* UPDATE (invalidate), INSERT, COMMIT; then the response, whose background
\* task is queued in this worker's memory (routes/auth.py, routes/voting.py).
CreateWrite(w) ==
    LET phone == req[w].phone  purpose == req[w].purpose IN
    /\ pc[w] \in {"create", "send"}
    /\ \E otp \in Codes :
          /\ otp_logs' = Append(invalidate_existing(phone, purpose),
                                NewLog(phone, purpose, otp))
          /\ \/ /\ pc[w] = "create"
                /\ outbox' = outbox \cup {[worker |-> w, phone |-> phone,
                                           purpose |-> purpose, otp |-> otp]}
                /\ Return(w)
             \/ /\ pc[w] = "send"
                /\ pc' = [pc EXCEPT ![w] = "sending"]
                /\ req' = [req EXCEPT ![w].otp = otp]
                /\ UNCHANGED outbox
    /\ ghost' = Append(ghost, [creator |-> w, guesses |-> 0])
    /\ UNCHANGED <<now, accepts>>

\* A background task runs.  The provider answers True (delivered) or False, and
\* nobody looks at the answer: for the backend both are the same step.
Dispatch(m) ==
    /\ m \in outbox
    /\ outbox' = outbox \ {m}
    /\ UNCHANGED <<now, otp_logs, pc, req, ghost, accepts>>

SendDelivered(w) ==
    /\ pc[w] = "sending"
    /\ Return(w)
    /\ UNCHANGED <<now, otp_logs, outbox, ghost, accepts>>

\* send_otp after a failed delivery: whatever OTP of the key is live dies.
SendFailed(w) ==
    LET phone == req[w].phone  purpose == req[w].purpose IN
    /\ pc[w] = "sending"
    /\ otp_logs' = invalidate_existing(phone, purpose)
    /\ Return(w)
    /\ UNCHANGED <<now, outbox, ghost, accepts>>

-----------------------------------------------------------------------------
(* verify_otp *)

VerifyLookup(w, phone, purpose, otp) ==
    /\ pc[w] = "idle"
    /\ \E i \in Rows :
          /\ Live(i, phone, purpose)
          /\ \A j \in Rows : Live(j, phone, purpose) =>
                otp_logs[j].created_at <= otp_logs[i].created_at
          /\ pc' = [pc EXCEPT ![w] =
                       IF AttemptsLeft(otp_logs[i].attempts) THEN "count" ELSE "exhaust"]
          /\ req' = [req EXCEPT ![w] =
                       [phone |-> phone, purpose |-> purpose, otp |-> otp, log |-> i,
                        attempts |-> otp_logs[i].attempts]]
    /\ UNCHANGED <<now, otp_logs, outbox, ghost, accepts>>

\* log.is_active = False; commit
VerifyExhausted(w) ==
    LET log == req[w].log IN
    /\ pc[w] = "exhaust"
    /\ otp_logs' = [otp_logs EXCEPT ![log] = [otp_logs[log] EXCEPT !.is_active = FALSE]]
    /\ Return(w)
    /\ UNCHANGED <<now, outbox, ghost, accepts>>

\* log.attempts += 1; commit
VerifyCount(w) ==
    LET log == req[w].log IN
    /\ pc[w] = "count"
    /\ otp_logs' = [otp_logs EXCEPT ![log] = Counted(otp_logs[log], req[w].attempts)]
    /\ pc' = [pc EXCEPT ![w] = "compare"]
    /\ UNCHANGED <<now, req, outbox, ghost, accepts>>

\* The row is reloaded after the commit, but only its hash is looked at.
VerifyCompare(w) ==
    LET log == req[w].log IN
    /\ pc[w] = "compare"
    /\ \/ /\ otp_logs[log].otp_hash = hash_otp(req[w].otp, req[w].phone)
          /\ otp_logs' = [otp_logs EXCEPT ![log] = MarkedUsed(otp_logs[log])]
          /\ accepts' = Append(accepts, [worker |-> w, log |-> log])
       \/ /\ otp_logs[log].otp_hash # hash_otp(req[w].otp, req[w].phone)
          /\ UNCHANGED <<otp_logs, accepts>>
    /\ ghost' = [ghost EXCEPT ![log] = [ghost[log] EXCEPT !.guesses = ghost[log].guesses + 1]]
    /\ Return(w)
    /\ UNCHANGED <<now, outbox>>

-----------------------------------------------------------------------------
(* Environment *)

\* The handler dies between two steps: "database is locked" after
\* busy_timeout, or any exception; get_db rolls back what is not committed.
Abort(w) ==
    /\ pc[w] # "idle"
    /\ Return(w)
    /\ UNCHANGED <<now, otp_logs, outbox, ghost, accepts>>

\* gunicorn kills or recycles the worker: its queued background tasks are lost.
WorkerRestart(w) ==
    /\ Return(w)
    /\ outbox' = {m \in outbox : m.worker # w}
    /\ UNCHANGED <<now, otp_logs, ghost, accepts>>

Tick ==
    /\ now < MaxTime
    /\ now' = now + 1
    /\ UNCHANGED <<otp_logs, pc, req, outbox, ghost, accepts>>

WorkerStep(w) ==
    \/ \E phone \in Phones, purpose \in VALID_PURPOSES, entry \in Entry :
          CreateOtp(w, phone, purpose, entry)
    \/ CreateWrite(w)
    \/ SendDelivered(w)
    \/ SendFailed(w)
    \/ \E phone \in Phones, purpose \in VALID_PURPOSES, otp \in Codes :
          VerifyLookup(w, phone, purpose, otp)
    \/ VerifyExhausted(w)
    \/ VerifyCount(w)
    \/ VerifyCompare(w)
    \/ Abort(w)
    \/ WorkerRestart(w)

Next ==
    \/ \E w \in Workers : WorkerStep(w)
    \/ \E m \in outbox : Dispatch(m)
    \/ Tick

Spec == Init /\ [][Next]_vars

-----------------------------------------------------------------------------
(* Properties that hold for any number of workers *)

\* A phone and purpose never have two OTPs alive: invalidation and insertion are
\* one write transaction, and no stale copy of a row revives it
\* (otp_service.py:107-123, otp.py:20).
OneActivePerKey ==
    \A i, j \in Rows :
        /\ otp_logs[i].is_active
        /\ otp_logs[j].is_active
        /\ SameKey(otp_logs[i], otp_logs[j].phone_number, otp_logs[j].purpose)
        => i = j

\* An OTP that was used, exhausted or superseded is never revived by a handler
\* that still holds the row as it was (the commits at otp_service.py:203, 211, 223).
DeadStaysDead ==
    [][\A i \in Rows : ~otp_logs[i].is_active => ~otp_logs'[i].is_active]_vars

\* However requests interleave, one worker accepts one OTP at most once: n workers
\* let an OTP through at most n times, and a single worker exactly once
\* (otp_service.py:176 "single-use").
AcceptOncePerWorker ==
    \A i, j \in 1 .. Len(accepts) :
        /\ accepts[i].worker = accepts[j].worker
        /\ accepts[i].log = accepts[j].log
        => i = j

\* One worker creates OTPs of one key at least OTP_RATE_LIMIT apart, whatever
\* became of the earlier ones: n workers create at most n in any window
\* (otp_service.py:50-64).
SpacedPerWorker ==
    \A i, j \in Rows :
        /\ i < j
        /\ SameKey(otp_logs[i], otp_logs[j].phone_number, otp_logs[j].purpose)
        /\ ghost[i].creator = ghost[j].creator
        => otp_logs[i].created_at + OTP_RATE_LIMIT <= otp_logs[j].created_at

\* A code on its way to a handset has a committed row to be verified against (otp_service.py:87 "committed before this method returns").
DispatchedIsOnRecord ==
    \A m \in outbox : \E i \in Rows :
        /\ SameKey(otp_logs[i], m.phone, m.purpose)
        /\ otp_logs[i].otp_hash = hash_otp(m.otp, m.phone)

\* For each count up to the limit, how many workers are past it; never more past a
\* higher count.  With n workers and a limit of m there are C(n + m, m) of them.
Courses ==
    {c \in [1 .. OTP_MAX_RETRIES -> 0 .. Cardinality(Workers)] :
        \A j, k \in 1 .. OTP_MAX_RETRIES : j <= k => c[j] >= c[k]}

\* The guess race is bounded.  A lost increment or a count set back by a stale copy costs
\* the worker that held the copy, and the workers are finitely many: however they
\* interleave, an OTP is compared fewer times than there are courses.  For one worker
\* that is OTP_MAX_RETRIES, for two and a limit of 3 it is 9 (otp_service.py:210).
GuessRaceBounded ==
    \A i \in Rows : ghost[i].guesses < Cardinality(Courses)

\* The table implements the desk: to the routes, attempts, codes and the clock show
\* only in whether a verification succeeds (otp_service.py:82-225).
Desk == INSTANCE OtpDesk WITH
    Keys <- Phones \X VALID_PURPOSES,
    rows <- [i \in Rows |-> [key |-> <<otp_logs[i].phone_number, otp_logs[i].purpose>>,
                            live |-> otp_logs[i].is_active]],
    loaded <- [w \in Workers |-> IF pc[w] \in Verifying THEN req[w].log ELSE 0]

ImplementsDesk == Desk!Spec

(* Properties of a deployment with one worker, and what the docs say *)

\* README.md:187 "Max 3 attempts then invalidated": no OTP is compared with more
\* than OTP_MAX_RETRIES submitted codes.
GuessBudget ==
    \A i \in Rows : ghost[i].guesses <= OTP_MAX_RETRIES

\* otp_service.py:176, 220 "single-use": an OTP is accepted at most once.
SingleUse ==
    \A i, j \in 1 .. Len(accepts) : accepts[i].log = accepts[j].log => i = j

\* README.md:188 "1 OTP per 60 s per phone+purpose".
RateLimit ==
    \A i, j \in Rows :
        /\ i < j
        /\ SameKey(otp_logs[i], otp_logs[j].phone_number, otp_logs[j].purpose)
        => otp_logs[i].created_at + OTP_RATE_LIMIT <= otp_logs[j].created_at
=============================================================================
