--------------------------- MODULE OtpServiceProofs ---------------------------
(* Theorems about OtpService, for every set of workers, phones and codes. *)
EXTENDS OtpService, FiniteSetTheorems, TLAPS

-----------------------------------------------------------------------------
(* Lemmas about the writes *)

\* A column of a row is written with a value of its type.
LEMMA RowWrites ==
  ASSUME NEW row \in OTPLog
  PROVE  /\ [row EXCEPT !.is_active = FALSE] \in OTPLog
         /\ \A read \in Nat : read < OTP_MAX_RETRIES => Counted(row, read) \in OTPLog
         /\ MarkedUsed(row) \in OTPLog
<1>1. [row EXCEPT !.is_active = FALSE] \in OTPLog
  BY DEF OTPLog
<1>2. \A read \in Nat : read < OTP_MAX_RETRIES => Counted(row, read) \in OTPLog
  BY OtpAssumption DEF OTPLog, Counted
<1>3. MarkedUsed(row) \in OTPLog
  BY DEF OTPLog, MarkedUsed
<1>4. QED
  BY <1>1, <1>2, <1>3

LEMMA GhostWrites ==
  ASSUME NEW g \in Ghost
  PROVE  [g EXCEPT !.guesses = g.guesses + 1] \in Ghost
BY DEF Ghost

LEMMA RequestWrites ==
  ASSUME NEW r \in Request, NEW code \in Codes
  PROVE  [r EXCEPT !.otp = code] \in Request
BY DEF Request

\* The bulk UPDATE keeps the table's length and every column but is_active.
LEMMA InvalidateKeeps ==
  ASSUME otp_logs \in Seq(OTPLog), NEW phone, NEW purpose
  PROVE  LET t == invalidate_existing(phone, purpose) IN
         /\ t \in Seq(OTPLog)
         /\ Len(t) = Len(otp_logs)
         /\ \A i \in Rows :
               /\ t[i] = IF SameKey(otp_logs[i], phone, purpose)
                         THEN [otp_logs[i] EXCEPT !.is_active = FALSE] ELSE otp_logs[i]
               /\ t[i] \in OTPLog
<1> DEFINE t == invalidate_existing(phone, purpose)
<1>1. \A i \in Rows : otp_logs[i] \in OTPLog
  BY DEF Rows
<1>2. \A i \in Rows : [otp_logs[i] EXCEPT !.is_active = FALSE] \in OTPLog
  BY <1>1, RowWrites
<1>3. t \in [1 .. Len(otp_logs) -> OTPLog]
  BY <1>1, <1>2 DEF invalidate_existing, Rows
<1>4. t \in Seq(OTPLog) /\ Len(t) = Len(otp_logs)
  BY <1>3
<1>5. QED
  BY <1>1, <1>2, <1>4 DEF invalidate_existing, Rows

-----------------------------------------------------------------------------
(* Typing *)

\* Rows, requests and histories have the types of the source; in particular the
\* attempts column never exceeds OTP_MAX_RETRIES, whatever updates are lost.
THEOREM Typing == Spec => []TypeOK
<1> USE OtpAssumption
<1>1. Init => TypeOK
  BY DEF Init, TypeOK, Rows, Creating, Verifying, NoRequest, Request
<1>2. TypeOK /\ [Next]_vars => TypeOK'
  <2> SUFFICES ASSUME TypeOK, [Next]_vars PROVE TypeOK'
    OBVIOUS
  <2> USE DEF TypeOK, Rows
  <2>a. NoRequest \in Request
    BY DEF NoRequest, Request
  <2>b. \A i \in Rows : otp_logs[i] \in OTPLog /\ ghost[i] \in Ghost
    OBVIOUS
  <2>1. CASE UNCHANGED vars
    BY <2>1 DEF vars
  <2>2. ASSUME NEW w \in Workers, NEW phone \in Phones, NEW purpose \in VALID_PURPOSES,
               NEW entry \in Entry, CreateOtp(w, phone, purpose, entry)
        PROVE TypeOK'
    <3>1. [NoRequest EXCEPT !.phone = phone, !.purpose = purpose] \in Request
      BY DEF NoRequest, Request
    <3>2. QED
      BY <2>2, <3>1 DEF CreateOtp, Creating, Verifying, NoRequest
  <2>3. ASSUME NEW w \in Workers, CreateWrite(w) PROVE TypeOK'
    <3> DEFINE phone == req[w].phone  purpose == req[w].purpose
    <3>1. phone \in Phones /\ purpose \in VALID_PURPOSES
      BY <2>3 DEF CreateWrite, Creating
    <3>2. PICK otp \in Codes :
            /\ otp_logs' = Append(invalidate_existing(phone, purpose),
                                  NewLog(phone, purpose, otp))
            /\ \/ /\ pc[w] = "create"
                  /\ outbox' = outbox \cup {[worker |-> w, phone |-> phone,
                                             purpose |-> purpose, otp |-> otp]}
                  /\ Return(w)
               \/ /\ pc[w] = "send"
                  /\ pc' = [pc EXCEPT ![w] = "sending"]
                  /\ req' = [req EXCEPT ![w].otp = otp]
                  /\ UNCHANGED outbox
      BY <2>3 DEF CreateWrite
    <3>3. NewLog(phone, purpose, otp) \in OTPLog
      BY <3>1 DEF NewLog, OTPLog, hash_otp
    <3>4. otp_logs' \in Seq(OTPLog) /\ Len(otp_logs') = Len(otp_logs) + 1
      BY <3>2, <3>3, InvalidateKeeps
    <3>5. ghost' \in Seq(Ghost) /\ Len(ghost') = Len(ghost) + 1
      BY <2>3 DEF CreateWrite, Ghost
    <3>6. outbox' \subseteq Message
      BY <3>1, <3>2 DEF Message
    <3>7. /\ pc' \in [Workers -> {"idle"} \cup Creating \cup Verifying]
          /\ req' \in [Workers -> Request]
          /\ \A v \in Workers : v # w => pc'[v] = pc[v] /\ req'[v] = req[v]
          /\ pc'[w] \in {"idle", "sending"}
          /\ pc'[w] = "sending" =>
                req'[w].phone = phone /\ req'[w].purpose = purpose
      <4>1. CASE pc[w] = "create"
        BY <2>a, <3>2, <4>1 DEF Return
      <4>2. CASE pc[w] = "send"
        <5>1. /\ req' = [req EXCEPT ![w] = [req[w] EXCEPT !.otp = otp]]
              /\ pc' = [pc EXCEPT ![w] = "sending"]
          BY <3>2, <4>2
        <5>2. [req[w] EXCEPT !.otp = otp] \in Request
          BY RequestWrites
        <5>3. /\ [req[w] EXCEPT !.otp = otp].phone = req[w].phone
              /\ [req[w] EXCEPT !.otp = otp].purpose = req[w].purpose
          BY DEF Request
        <5>4. QED
          BY <5>1, <5>2, <5>3 DEF Creating
      <4>3. QED
        BY <2>3, <4>1, <4>2 DEF CreateWrite
    <3>8. \A v \in Workers :
            /\ pc'[v] \in Creating =>
                  req'[v].phone \in Phones /\ req'[v].purpose \in VALID_PURPOSES
            /\ pc'[v] \in Verifying => req'[v].log \in 1 .. Len(otp_logs')
            /\ pc'[v] = "count" => req'[v].attempts < OTP_MAX_RETRIES
      <4> SUFFICES ASSUME NEW v \in Workers
                   PROVE  /\ pc'[v] \in Creating =>
                                req'[v].phone \in Phones /\ req'[v].purpose \in VALID_PURPOSES
                          /\ pc'[v] \in Verifying => req'[v].log \in 1 .. Len(otp_logs')
                          /\ pc'[v] = "count" => req'[v].attempts < OTP_MAX_RETRIES
        OBVIOUS
      <4>1. CASE v = w
        BY <3>1, <3>7, <4>1 DEF Verifying, Creating
      <4>2. CASE v # w
        <5>1. pc'[v] = pc[v] /\ req'[v] = req[v]
          BY <3>7, <4>2
        <5>2. QED
          BY <3>4, <5>1
      <4>3. QED
        BY <4>1, <4>2
    <3>9. now' \in Nat /\ accepts' \in Seq(Acceptance)
      BY <2>3 DEF CreateWrite
    <3>10. QED
      BY <3>4, <3>5, <3>6, <3>7, <3>8, <3>9
  <2>4. ASSUME NEW w \in Workers, SendDelivered(w) PROVE TypeOK'
    BY <2>a, <2>4 DEF SendDelivered, Return, Creating, Verifying
  <2>5. ASSUME NEW w \in Workers, SendFailed(w) PROVE TypeOK'
    <3>1. otp_logs' \in Seq(OTPLog) /\ Len(otp_logs') = Len(otp_logs)
      BY <2>5, InvalidateKeeps DEF SendFailed
    <3>2. QED
      BY <2>a, <2>5, <3>1 DEF SendFailed, Return, Creating, Verifying
  <2>6. ASSUME NEW w \in Workers, NEW phone \in Phones, NEW purpose \in VALID_PURPOSES,
               NEW otp \in Codes, VerifyLookup(w, phone, purpose, otp)
        PROVE TypeOK'
    <3>1. PICK i \in Rows :
             /\ pc' = [pc EXCEPT ![w] =
                          IF AttemptsLeft(otp_logs[i].attempts) THEN "count" ELSE "exhaust"]
             /\ req' = [req EXCEPT ![w] =
                          [phone |-> phone, purpose |-> purpose, otp |-> otp, log |-> i,
                           attempts |-> otp_logs[i].attempts]]
      BY <2>6 DEF VerifyLookup
    <3>2. otp_logs[i].attempts \in 0 .. OTP_MAX_RETRIES
      BY <2>b DEF OTPLog
    <3>3. [phone |-> phone, purpose |-> purpose, otp |-> otp, log |-> i,
           attempts |-> otp_logs[i].attempts] \in Request
      BY <3>2 DEF Request
    <3>4. QED
      BY <2>6, <3>1, <3>2, <3>3 DEF VerifyLookup, AttemptsLeft, Creating, Verifying
  <2>7. ASSUME NEW w \in Workers, VerifyExhausted(w) PROVE TypeOK'
    <3>1. req[w].log \in Rows
      BY <2>7 DEF VerifyExhausted, Verifying
    <3>2. [otp_logs[req[w].log] EXCEPT !.is_active = FALSE] \in OTPLog
      BY <2>b, <3>1, RowWrites
    <3>3. otp_logs' \in Seq(OTPLog) /\ Len(otp_logs') = Len(otp_logs)
      BY <2>7, <3>1, <3>2 DEF VerifyExhausted
    <3>4. QED
      BY <2>a, <2>7, <3>3 DEF VerifyExhausted, Return, Creating, Verifying
  <2>8. ASSUME NEW w \in Workers, VerifyCount(w) PROVE TypeOK'
    <3>1. req[w].log \in Rows /\ req[w].attempts < OTP_MAX_RETRIES /\ req[w].attempts \in Nat
      BY <2>8 DEF VerifyCount, Verifying, Request
    <3>2. Counted(otp_logs[req[w].log], req[w].attempts) \in OTPLog
      BY <2>b, <3>1, RowWrites
    <3>3. otp_logs' \in Seq(OTPLog) /\ Len(otp_logs') = Len(otp_logs)
      BY <2>8, <3>1, <3>2 DEF VerifyCount
    <3>4. QED
      BY <2>8, <3>3 DEF VerifyCount, Creating, Verifying
  <2>9. ASSUME NEW w \in Workers, VerifyCompare(w) PROVE TypeOK'
    <3> DEFINE log == req[w].log
    <3>1. log \in Rows
      BY <2>9 DEF VerifyCompare, Verifying
    <3>2. MarkedUsed(otp_logs[log]) \in OTPLog
      BY <2>b, <3>1, RowWrites
    <3>3. otp_logs' \in Seq(OTPLog) /\ Len(otp_logs') = Len(otp_logs)
      <4>1. \/ otp_logs' = [otp_logs EXCEPT ![log] = MarkedUsed(otp_logs[log])]
            \/ otp_logs' = otp_logs
        BY <2>9 DEF VerifyCompare
      <4>2. CASE otp_logs' = [otp_logs EXCEPT ![log] = MarkedUsed(otp_logs[log])]
        BY <3>1, <3>2, <4>2
      <4>3. CASE otp_logs' = otp_logs
        BY <4>3
      <4>4. QED
        BY <4>1, <4>2, <4>3
    <3>4. [ghost[log] EXCEPT !.guesses = ghost[log].guesses + 1] \in Ghost
      BY <2>b, <3>1, GhostWrites
    <3>5. ghost' \in Seq(Ghost) /\ Len(ghost') = Len(ghost)
      BY <2>9, <3>1, <3>4 DEF VerifyCompare
    <3>6. accepts' \in Seq(Acceptance)
      <4>1. \/ accepts' = Append(accepts, [worker |-> w, log |-> log])
            \/ accepts' = accepts
        BY <2>9 DEF VerifyCompare
      <4>2. [worker |-> w, log |-> log] \in Acceptance
        BY <3>1 DEF Acceptance
      <4>3. CASE accepts' = accepts
        BY <4>3
      <4>4. CASE accepts' = Append(accepts, [worker |-> w, log |-> log])
        BY <4>2, <4>4
      <4>5. QED
        BY <4>1, <4>3, <4>4
    <3>7. QED
      BY <2>a, <2>9, <3>3, <3>5, <3>6 DEF VerifyCompare, Return, Creating, Verifying
  <2>10. ASSUME NEW w \in Workers, Abort(w) PROVE TypeOK'
    BY <2>a, <2>10 DEF Abort, Return, Creating, Verifying
  <2>11. ASSUME NEW w \in Workers, WorkerRestart(w) PROVE TypeOK'
    BY <2>a, <2>11 DEF WorkerRestart, Return, Creating, Verifying
  <2>12. ASSUME NEW m \in outbox, Dispatch(m) PROVE TypeOK'
    BY <2>12 DEF Dispatch
  <2>13. CASE Tick
    BY <2>13 DEF Tick
  <2>14. QED
    BY <2>1, <2>2, <2>3, <2>4, <2>5, <2>6, <2>7, <2>8, <2>9, <2>10, <2>11, <2>12, <2>13
    DEF Next, WorkerStep
<1>3. QED
  BY <1>1, <1>2, PTL DEF Spec

-----------------------------------------------------------------------------
(* What no step does to a row *)

\* Row i survives the step with its identity, and never comes back to life.
RowKept(i) ==
    LET old == otp_logs[i]  new == otp_logs'[i] IN
    /\ new.phone_number = old.phone_number
    /\ new.purpose = old.purpose
    /\ new.otp_hash = old.otp_hash
    /\ new.created_at = old.created_at
    /\ new.is_active => old.is_active
    /\ old.verified => new.verified
    /\ ghost'[i].creator = ghost[i].creator

LEMMA RowColumns ==
  ASSUME NEW row \in OTPLog, NEW new,
         \/ new = row
         \/ new = [row EXCEPT !.is_active = FALSE]
         \/ new = MarkedUsed(row)
         \/ \E read \in Nat : new = Counted(row, read)
  PROVE  /\ new.phone_number = row.phone_number
         /\ new.purpose = row.purpose
         /\ new.otp_hash = row.otp_hash
         /\ new.created_at = row.created_at
         /\ new.is_active => row.is_active
         /\ row.verified => new.verified
<1>1. CASE new = row
  BY <1>1
<1>2. CASE new = [row EXCEPT !.is_active = FALSE]
  BY <1>2 DEF OTPLog
<1>3. CASE new = MarkedUsed(row)
  BY <1>3 DEF OTPLog, MarkedUsed
<1>4. ASSUME NEW read \in Nat, new = Counted(row, read)
      PROVE  /\ new.phone_number = row.phone_number
             /\ new.purpose = row.purpose
             /\ new.otp_hash = row.otp_hash
             /\ new.created_at = row.created_at
             /\ new.is_active => row.is_active
             /\ row.verified => new.verified
  BY <1>4 DEF OTPLog, Counted
<1>5. QED
  BY <1>1, <1>2, <1>3, <1>4

\* Only CreateWrite adds a row; every step keeps the rows there are.
LEMMA RowsKept ==
  ASSUME TypeOK, [Next]_vars
  PROVE  /\ \A i \in Rows : i \in Rows' /\ RowKept(i)
         /\ Len(otp_logs') = Len(otp_logs) \/ \E w \in Workers : CreateWrite(w)
<1> DEFINE P == /\ \A i \in Rows : i \in Rows' /\ RowKept(i)
                /\ Len(otp_logs') = Len(otp_logs) \/ \E w \in Workers : CreateWrite(w)
<1>a. \A i \in Rows : otp_logs[i] \in OTPLog /\ ghost[i] \in Ghost
  BY DEF TypeOK, Rows
<1>b. ASSUME UNCHANGED <<otp_logs, ghost>> PROVE P
  BY <1>b DEF RowKept, Rows
<1>1. ASSUME NEW w \in Workers, CreateWrite(w) PROVE P
  <2> DEFINE inv == invalidate_existing(req[w].phone, req[w].purpose)
  <2>1. PICK otp \in Codes : otp_logs' = Append(inv, NewLog(req[w].phone, req[w].purpose, otp))
    BY <1>1 DEF CreateWrite
  <2>2. /\ inv \in Seq(OTPLog)
        /\ Len(inv) = Len(otp_logs)
        /\ \A i \in Rows : inv[i] = otp_logs[i] \/ inv[i] = [otp_logs[i] EXCEPT !.is_active = FALSE]
    BY InvalidateKeeps DEF TypeOK
  <2>3. \A i \in Rows : i \in Rows' /\ otp_logs'[i] = inv[i]
    BY <2>1, <2>2 DEF Rows
  <2>4. \A i \in Rows : ghost'[i] = ghost[i]
    BY <1>1 DEF CreateWrite, TypeOK, Rows
  <2>5. \A i \in Rows : otp_logs'[i] = otp_logs[i]
                        \/ otp_logs'[i] = [otp_logs[i] EXCEPT !.is_active = FALSE]
    BY <2>2, <2>3
  <2>6. \A i \in Rows : RowKept(i)
    BY <1>a, <2>4, <2>5, RowColumns DEF RowKept
  <2>7. QED
    BY <1>1, <2>3, <2>6
<1>2. ASSUME NEW w \in Workers, SendFailed(w) PROVE P
  <2> DEFINE inv == invalidate_existing(req[w].phone, req[w].purpose)
  <2>1. otp_logs' = inv
    BY <1>2 DEF SendFailed
  <2>a. otp_logs \in Seq(OTPLog)
    BY DEF TypeOK
  <2>2. /\ Len(inv) = Len(otp_logs)
        /\ \A i \in Rows : inv[i] = otp_logs[i] \/ inv[i] = [otp_logs[i] EXCEPT !.is_active = FALSE]
    BY <2>a, InvalidateKeeps
  <2>3. \A i \in Rows : ghost'[i].creator = ghost[i].creator
    BY <1>2, <1>a DEF SendFailed, Ghost
  <2>4. QED
    BY <1>a, <2>1, <2>2, <2>3, RowColumns DEF RowKept, Rows
<1>3. ASSUME NEW w \in Workers, VerifyExhausted(w) PROVE P
  <2>0. otp_logs' = [otp_logs EXCEPT ![req[w].log] =
                        [otp_logs[req[w].log] EXCEPT !.is_active = FALSE]]
    BY <1>3 DEF VerifyExhausted
  <2>1. \A i \in Rows : \/ otp_logs'[i] = otp_logs[i]
                        \/ otp_logs'[i] = [otp_logs[i] EXCEPT !.is_active = FALSE]
    <3> DEFINE log == req[w].log
               dead == [otp_logs[log] EXCEPT !.is_active = FALSE]
    <3>1. otp_logs' = [otp_logs EXCEPT ![log] = dead]
      BY <2>0
    <3>2. \A i \in Rows : otp_logs'[i] = IF i = log THEN dead ELSE otp_logs[i]
      <4> HIDE DEF dead
      <4> QED  BY <3>1 DEF TypeOK, Rows
    <3>3. QED
      BY <3>2
  <2>2. Len(otp_logs') = Len(otp_logs) /\ ghost' = ghost
    BY <1>3 DEF VerifyExhausted, TypeOK, Rows
  <2>3. QED
    BY <1>a, <2>1, <2>2, RowColumns DEF RowKept, Rows
<1>4. ASSUME NEW w \in Workers, VerifyCount(w) PROVE P
  <2>1. \A i \in Rows : \/ otp_logs'[i] = otp_logs[i]
                        \/ otp_logs'[i] = Counted(otp_logs[i], req[w].attempts)
    BY <1>4 DEF VerifyCount, TypeOK, Rows
  <2>2. Len(otp_logs') = Len(otp_logs) /\ ghost' = ghost
    BY <1>4 DEF VerifyCount, TypeOK, Rows
  <2>3. req[w].attempts \in Nat
    BY DEF TypeOK, Request
  <2>4. QED
    BY <1>a, <2>1, <2>2, <2>3, RowColumns DEF RowKept, Rows
<1>5. ASSUME NEW w \in Workers, VerifyCompare(w) PROVE P
  <2>0. req[w].log \in Rows
    BY <1>5 DEF VerifyCompare, TypeOK, Verifying
  <2>1. \A i \in Rows : \/ otp_logs'[i] = otp_logs[i]
                        \/ otp_logs'[i] = MarkedUsed(otp_logs[i])
    BY <1>5 DEF VerifyCompare, TypeOK, Rows
  <2>2. Len(otp_logs') = Len(otp_logs)
    BY <1>5 DEF VerifyCompare, TypeOK, Rows
  <2>3. \A i \in Rows : ghost'[i].creator = ghost[i].creator
    BY <1>5, <1>a, <2>0 DEF VerifyCompare, Ghost, TypeOK, Rows
  <2>4. QED
    BY <1>a, <2>1, <2>2, <2>3, RowColumns DEF RowKept, Rows
<1>6. CASE \/ \E w \in Workers :
              \/ \E phone \in Phones, purpose \in VALID_PURPOSES, entry \in Entry :
                     CreateOtp(w, phone, purpose, entry)
              \/ SendDelivered(w)
              \/ \E phone \in Phones, purpose \in VALID_PURPOSES, otp \in Codes :
                     VerifyLookup(w, phone, purpose, otp)
              \/ Abort(w)
              \/ WorkerRestart(w)
           \/ \E m \in outbox : Dispatch(m)
           \/ Tick
           \/ UNCHANGED vars
  BY <1>6, <1>b DEF CreateOtp, SendDelivered, VerifyLookup, Abort, WorkerRestart,
                    Dispatch, Tick, vars
<1>7. QED
  BY <1>1, <1>2, <1>3, <1>4, <1>5, <1>6 DEF Next, WorkerStep

\* No lost update and no stale copy revives an OTP.
THEOREM DeadRowsStayDead == Spec => DeadStaysDead
<1>1. TypeOK /\ [Next]_vars => [\A i \in Rows : ~otp_logs[i].is_active => ~otp_logs'[i].is_active]_vars
  BY RowsKept DEF RowKept
<1>2. QED
  BY <1>1, Typing, PTL DEF Spec, DeadStaysDead

-----------------------------------------------------------------------------
(* At most one live OTP per phone and purpose *)

\* The write transaction of create_otp kills the key's live row before it adds
\* one; every other step can only kill rows (RowsKept).
THEOREM OneActive == Spec => []OneActivePerKey
<1>1. Init => OneActivePerKey
  BY DEF Init, OneActivePerKey, Rows
<1>2. TypeOK /\ OneActivePerKey /\ [Next]_vars => OneActivePerKey'
  <2> SUFFICES ASSUME TypeOK, OneActivePerKey, [Next]_vars PROVE OneActivePerKey'
    OBVIOUS
  <2>1. CASE Len(otp_logs') = Len(otp_logs)
    <3>1. Rows' = Rows
      BY <2>1 DEF Rows
    <3>2. QED
      BY <3>1, RowsKept DEF OneActivePerKey, RowKept, SameKey
  <2>2. ASSUME NEW w \in Workers, CreateWrite(w) PROVE OneActivePerKey'
    <3> DEFINE phone == req[w].phone
               purpose == req[w].purpose
               inv == invalidate_existing(phone, purpose)
    <3>1. PICK otp \in Codes : otp_logs' = Append(inv, NewLog(phone, purpose, otp))
      BY <2>2 DEF CreateWrite
    <3>2. otp_logs \in Seq(OTPLog) /\ \A i \in Rows : otp_logs[i] \in OTPLog
      BY DEF TypeOK, Rows
    <3>3. /\ inv \in Seq(OTPLog)
          /\ Len(inv) = Len(otp_logs)
          /\ \A i \in Rows : inv[i] = IF SameKey(otp_logs[i], phone, purpose)
                                      THEN [otp_logs[i] EXCEPT !.is_active = FALSE]
                                      ELSE otp_logs[i]
      BY <3>2, InvalidateKeeps
    <3>4. /\ Len(otp_logs') = Len(otp_logs) + 1
          /\ otp_logs'[Len(otp_logs) + 1] = NewLog(phone, purpose, otp)
          /\ \A i \in Rows : otp_logs'[i] = inv[i]
      BY <3>1, <3>3 DEF Rows
    <3>5. Rows' = Rows \cup {Len(otp_logs) + 1}
      BY <3>2, <3>4 DEF Rows
    <3>6. \A i \in Rows : SameKey(otp_logs'[i], phone, purpose) => ~otp_logs'[i].is_active
      <4> SUFFICES ASSUME NEW i \in Rows, SameKey(otp_logs'[i], phone, purpose)
                   PROVE  ~otp_logs'[i].is_active
        OBVIOUS
      <4>1. SameKey(otp_logs[i], phone, purpose)
        BY RowsKept DEF RowKept, SameKey
      <4>2. otp_logs'[i] = [otp_logs[i] EXCEPT !.is_active = FALSE]
        BY <3>3, <3>4, <4>1
      <4>3. QED
        BY <3>2, <4>2 DEF OTPLog
    <3>7. NewLog(phone, purpose, otp).phone_number = phone
          /\ NewLog(phone, purpose, otp).purpose = purpose
      BY DEF NewLog
    <3>8. QED
      <4> SUFFICES ASSUME NEW i \in Rows', NEW j \in Rows',
                          otp_logs'[i].is_active, otp_logs'[j].is_active,
                          SameKey(otp_logs'[i], otp_logs'[j].phone_number, otp_logs'[j].purpose)
                   PROVE  i = j
        BY DEF OneActivePerKey
      <4>1. CASE i \in Rows /\ j \in Rows
        BY <4>1, RowsKept DEF OneActivePerKey, RowKept, SameKey
      <4>2. CASE i \in Rows /\ j = Len(otp_logs) + 1
        BY <4>2, <3>4, <3>6, <3>7 DEF SameKey
      <4>3. CASE i = Len(otp_logs) + 1 /\ j \in Rows
        BY <4>3, <3>4, <3>6, <3>7 DEF SameKey
      <4>4. QED
        BY <3>5, <4>1, <4>2, <4>3
  <2>3. QED
    BY <2>1, <2>2, RowsKept
<1>3. QED
  BY <1>1, <1>2, Typing, PTL DEF Spec

-----------------------------------------------------------------------------
(* Acceptance *)

\* An accepted row is verified, so no later lookup finds it; a handler that is
\* verifying a row has not accepted it before.
AcceptInv ==
    /\ AcceptOncePerWorker
    /\ \A k \in 1 .. Len(accepts) :
          accepts[k].log \in Rows /\ otp_logs[accepts[k].log].verified
    /\ \A w \in Workers : pc[w] \in Verifying =>
          \A k \in 1 .. Len(accepts) :
             ~(accepts[k].worker = w /\ accepts[k].log = req[w].log)

LEMMA AcceptInvariant == Spec => []AcceptInv
<1>1. Init => AcceptInv
  BY DEF Init, AcceptInv, AcceptOncePerWorker, Rows
<1>2. TypeOK /\ AcceptInv /\ [Next]_vars => AcceptInv'
  <2> SUFFICES ASSUME TypeOK, AcceptInv, [Next]_vars PROVE AcceptInv'
    OBVIOUS
  <2>a. \A i \in Rows : i \in Rows' /\ (otp_logs[i].verified => otp_logs'[i].verified)
    BY RowsKept DEF RowKept
  <2>b. ASSUME accepts' = accepts,
               \A v \in Workers : pc'[v] \in Verifying =>
                  pc[v] \in Verifying /\ req'[v].log = req[v].log
        PROVE AcceptInv'
    BY <2>a, <2>b DEF AcceptInv, AcceptOncePerWorker
  <2>c. ASSUME NEW w \in Workers, Return(w), accepts' = accepts PROVE AcceptInv'
    BY <2>b, <2>c DEF Return, TypeOK, Verifying
  <2>1. ASSUME NEW w \in Workers, NEW phone \in Phones, NEW purpose \in VALID_PURPOSES,
               NEW otp \in Codes, VerifyLookup(w, phone, purpose, otp)
        PROVE AcceptInv'
    <3>1. PICK i \in Rows :
             /\ Live(i, phone, purpose)
             /\ pc' = [pc EXCEPT ![w] =
                          IF AttemptsLeft(otp_logs[i].attempts) THEN "count" ELSE "exhaust"]
             /\ req' = [req EXCEPT ![w] =
                          [phone |-> phone, purpose |-> purpose, otp |-> otp, log |-> i,
                           attempts |-> otp_logs[i].attempts]]
      BY <2>1 DEF VerifyLookup
    <3>2. /\ ~otp_logs[i].verified
          /\ req'[w].log = i
          /\ \A v \in Workers : v # w => pc'[v] = pc[v] /\ req'[v] = req[v]
      BY <3>1 DEF Live, TypeOK
    <3>3. otp_logs' = otp_logs /\ accepts' = accepts
      BY <2>1 DEF VerifyLookup
    <3>4. QED
      BY <3>2, <3>3 DEF AcceptInv, AcceptOncePerWorker, Rows
  <2>2. ASSUME NEW w \in Workers, VerifyCompare(w) PROVE AcceptInv'
    <3> DEFINE log == req[w].log
    <3>1. log \in Rows /\ pc[w] \in Verifying
      BY <2>2 DEF VerifyCompare, TypeOK, Verifying
    <3>2. CASE accepts' = accepts
      BY <2>2, <2>c, <3>2 DEF VerifyCompare
    <3>3. CASE /\ otp_logs' = [otp_logs EXCEPT ![log] = MarkedUsed(otp_logs[log])]
               /\ accepts' = Append(accepts, [worker |-> w, log |-> log])
      <4>1. /\ Len(accepts') = Len(accepts) + 1
            /\ accepts'[Len(accepts) + 1] = [worker |-> w, log |-> log]
            /\ \A k \in 1 .. Len(accepts) : accepts'[k] = accepts[k]
        BY <3>3 DEF TypeOK
      <4>2. 1 .. Len(accepts') = (1 .. Len(accepts)) \cup {Len(accepts) + 1}
        BY <4>1 DEF TypeOK
      <4>3. otp_logs'[log].verified
        <5>1. otp_logs'[log] = MarkedUsed(otp_logs[log]) /\ otp_logs[log] \in OTPLog
          BY <3>1, <3>3 DEF TypeOK, Rows
        <5>2. QED
          BY <5>1 DEF MarkedUsed, OTPLog
      <4>4. \A v \in Workers : /\ v # w => pc'[v] = pc[v] /\ req'[v] = req[v]
                               /\ pc'[w] = "idle"
        BY <2>2 DEF VerifyCompare, Return, TypeOK
      <4>5. AcceptOncePerWorker'
        BY <3>1, <4>1, <4>2 DEF AcceptInv, AcceptOncePerWorker
      <4>6. \A k \in 1 .. Len(accepts') :
               accepts'[k].log \in Rows' /\ otp_logs'[accepts'[k].log].verified
        BY <2>a, <3>1, <4>1, <4>2, <4>3 DEF AcceptInv
      <4>7. \A v \in Workers : pc'[v] \in Verifying =>
               \A k \in 1 .. Len(accepts') :
                  ~(accepts'[k].worker = v /\ accepts'[k].log = req'[v].log)
        BY <4>1, <4>2, <4>4 DEF AcceptInv, Verifying
      <4>8. QED
        BY <4>5, <4>6, <4>7 DEF AcceptInv
    <3>4. QED
      BY <2>2, <3>2, <3>3 DEF VerifyCompare
  <2>3. ASSUME NEW w \in Workers, NEW phone \in Phones, NEW purpose \in VALID_PURPOSES,
               NEW entry \in Entry, CreateOtp(w, phone, purpose, entry)
        PROVE AcceptInv'
    <3>1. entry \notin Verifying
      BY OtpAssumption DEF Verifying
    <3>2. QED
      BY <2>3, <2>b, <3>1 DEF CreateOtp, TypeOK
  <2>4. ASSUME NEW w \in Workers, CreateWrite(w) PROVE AcceptInv'
    <3>1. /\ accepts' = accepts
          /\ \A v \in Workers : v # w => pc'[v] = pc[v] /\ req'[v] = req[v]
          /\ pc'[w] \in {"idle", "sending"}
      BY <2>4 DEF CreateWrite, Return, TypeOK
    <3>2. QED
      BY <2>b, <3>1 DEF Verifying
  <2>5. ASSUME NEW w \in Workers, VerifyCount(w) PROVE AcceptInv'
    BY <2>5, <2>b DEF VerifyCount, TypeOK, Verifying
  <2>6. ASSUME NEW w \in Workers, \/ SendDelivered(w) \/ SendFailed(w)
                                  \/ VerifyExhausted(w) \/ Abort(w) \/ WorkerRestart(w)
        PROVE AcceptInv'
    BY <2>6, <2>c DEF SendDelivered, SendFailed, VerifyExhausted, Abort, WorkerRestart
  <2>7. CASE (\E m \in outbox : Dispatch(m)) \/ Tick \/ UNCHANGED vars
    BY <2>7, <2>b DEF Dispatch, Tick, vars
  <2>8. QED
    BY <2>1, <2>2, <2>3, <2>4, <2>5, <2>6, <2>7 DEF Next, WorkerStep
<1>3. QED
  BY <1>1, <1>2, Typing, PTL DEF Spec

\* For any number of workers, no worker accepts the same OTP twice.
THEOREM AcceptOnce == Spec => []AcceptOncePerWorker
BY AcceptInvariant, PTL DEF AcceptInv

\* With one worker process an OTP is single-use, as otp_service.py:176 says.
THEOREM SingleWorkerSingleUse ==
  ASSUME NEW w \in Workers, Workers = {w}
  PROVE  Spec => []SingleUse
<1>1. TypeOK /\ AcceptOncePerWorker => SingleUse
  <2> SUFFICES ASSUME TypeOK, AcceptOncePerWorker PROVE SingleUse
    OBVIOUS
  <2>1. \A k \in 1 .. Len(accepts) : accepts[k] \in Acceptance
    BY DEF TypeOK
  <2>2. \A k \in 1 .. Len(accepts) : accepts[k].worker = w
    BY <2>1 DEF Acceptance
  <2>3. QED
    BY <2>2 DEF AcceptOncePerWorker, SingleUse
<1>2. QED
  BY <1>1, AcceptOnce, Typing, PTL

-----------------------------------------------------------------------------
(* What waits to be dispatched *)

\* A message is queued by the step that commits its row, and rows keep their phone,
\* purpose and hash: no message outlives or precedes its row.
THEOREM OnRecord == Spec => []DispatchedIsOnRecord
<1>1. Init => DispatchedIsOnRecord
  BY DEF Init, DispatchedIsOnRecord
<1>2. TypeOK /\ DispatchedIsOnRecord /\ [Next]_vars => DispatchedIsOnRecord'
  <2> SUFFICES ASSUME TypeOK, DispatchedIsOnRecord, [Next]_vars, NEW m \in outbox'
               PROVE  \E i \in Rows' :
                         /\ SameKey(otp_logs'[i], m.phone, m.purpose)
                         /\ otp_logs'[i].otp_hash = hash_otp(m.otp, m.phone)
    BY DEF DispatchedIsOnRecord
  <2>1. CASE m \in outbox
    BY <2>1, RowsKept DEF DispatchedIsOnRecord, RowKept, SameKey
  <2>2. ASSUME NEW w \in Workers, CreateWrite(w), m \notin outbox
        PROVE  \E i \in Rows' :
                  /\ SameKey(otp_logs'[i], m.phone, m.purpose)
                  /\ otp_logs'[i].otp_hash = hash_otp(m.otp, m.phone)
    <3> DEFINE phone == req[w].phone
               purpose == req[w].purpose
               inv == invalidate_existing(phone, purpose)
               last == Len(inv) + 1
    <3>1. PICK otp \in Codes :
             /\ otp_logs' = Append(inv, NewLog(phone, purpose, otp))
             /\ m = [worker |-> w, phone |-> phone, purpose |-> purpose, otp |-> otp]
      BY <2>2 DEF CreateWrite
    <3>2. inv \in Seq(OTPLog)
      BY InvalidateKeeps DEF TypeOK
    <3>3. last \in Rows' /\ otp_logs'[last] = NewLog(phone, purpose, otp)
      BY <3>1, <3>2 DEF Rows
    <3>4. /\ SameKey(NewLog(phone, purpose, otp), m.phone, m.purpose)
          /\ NewLog(phone, purpose, otp).otp_hash = hash_otp(m.otp, m.phone)
      BY <3>1 DEF NewLog, SameKey
    <3>5. QED
      BY <3>3, <3>4
  <2>3. outbox' \subseteq outbox \/ \E w \in Workers : CreateWrite(w)
    BY DEF Next, WorkerStep, CreateOtp, SendDelivered, SendFailed, VerifyLookup,
           VerifyExhausted, VerifyCount, VerifyCompare, Abort, WorkerRestart, Dispatch,
           Tick, vars
  <2>4. QED
    BY <2>1, <2>2, <2>3
<1>3. QED
  BY <1>1, <1>2, Typing, PTL DEF Spec

-----------------------------------------------------------------------------
(* The budget of guesses of a single worker *)

\* Each comparison was counted before it was made, and the count that is about to be
\* written back is the one in the row.
BudgetInv ==
    /\ \A i \in Rows : ghost[i].guesses <= otp_logs[i].attempts
    /\ \A w \in Workers :
          /\ pc[w] = "count" => req[w].attempts = otp_logs[req[w].log].attempts
          /\ pc[w] = "compare" => ghost[req[w].log].guesses < otp_logs[req[w].log].attempts

\* Row i keeps its two counters.
Uncounted(i) ==
    /\ otp_logs'[i].attempts = otp_logs[i].attempts
    /\ ghost'[i].guesses = ghost[i].guesses

LEMMA CountersKept ==
  ASSUME TypeOK, [Next]_vars
  PROVE  \/ \E w \in Workers : VerifyCount(w) \/ VerifyCompare(w)
         \/ /\ \A i \in Rows : Uncounted(i)
            /\ \/ Rows' = Rows
               \/ /\ Rows' = Rows \cup {Len(otp_logs) + 1}
                  /\ otp_logs'[Len(otp_logs) + 1].attempts = 0
                  /\ ghost'[Len(otp_logs) + 1].guesses = 0
<1> DEFINE P == /\ \A i \in Rows : Uncounted(i)
                /\ \/ Rows' = Rows
                   \/ /\ Rows' = Rows \cup {Len(otp_logs) + 1}
                      /\ otp_logs'[Len(otp_logs) + 1].attempts = 0
                      /\ ghost'[Len(otp_logs) + 1].guesses = 0
<1>a. \A i \in Rows : otp_logs[i] \in OTPLog /\ ghost[i] \in Ghost
  BY DEF TypeOK, Rows
<1>b. \A i \in Rows : [otp_logs[i] EXCEPT !.is_active = FALSE].attempts = otp_logs[i].attempts
  BY <1>a DEF OTPLog
<1>c. otp_logs \in Seq(OTPLog)
  BY DEF TypeOK
<1>1. ASSUME NEW w \in Workers, CreateWrite(w) PROVE P
  <2> DEFINE inv == invalidate_existing(req[w].phone, req[w].purpose)
  <2>1. PICK otp \in Codes : otp_logs' = Append(inv, NewLog(req[w].phone, req[w].purpose, otp))
    BY <1>1 DEF CreateWrite
  <2>2. /\ inv \in Seq(OTPLog)
        /\ Len(inv) = Len(otp_logs)
        /\ \A i \in Rows : inv[i] = otp_logs[i] \/ inv[i] = [otp_logs[i] EXCEPT !.is_active = FALSE]
    BY <1>c, InvalidateKeeps
  <2>3. /\ \A i \in Rows : otp_logs'[i] = inv[i]
        /\ otp_logs'[Len(otp_logs) + 1] = NewLog(req[w].phone, req[w].purpose, otp)
        /\ Len(otp_logs') = Len(otp_logs) + 1
    BY <2>1, <2>2 DEF Rows
  <2>4. /\ \A i \in Rows : ghost'[i] = ghost[i]
        /\ ghost'[Len(otp_logs) + 1].guesses = 0
    BY <1>1 DEF CreateWrite, TypeOK, Rows
  <2>5. Rows' = Rows \cup {Len(otp_logs) + 1}
    BY <1>c, <2>3 DEF Rows
  <2>6. NewLog(req[w].phone, req[w].purpose, otp).attempts = 0
    BY DEF NewLog
  <2>7. \A i \in Rows : Uncounted(i)
    BY <1>b, <2>2, <2>3, <2>4 DEF Uncounted
  <2>8. QED
    BY <2>3, <2>4, <2>5, <2>6, <2>7
<1>2. ASSUME NEW w \in Workers, SendFailed(w) PROVE P
  <2> DEFINE inv == invalidate_existing(req[w].phone, req[w].purpose)
  <2>1. otp_logs' = inv
    BY <1>2 DEF SendFailed
  <2>2. /\ Len(inv) = Len(otp_logs)
        /\ \A i \in Rows : inv[i] = otp_logs[i] \/ inv[i] = [otp_logs[i] EXCEPT !.is_active = FALSE]
    BY <1>c, InvalidateKeeps
  <2>3. \A i \in Rows : ghost'[i].guesses = ghost[i].guesses
    BY <1>2, <1>a DEF SendFailed, Ghost
  <2>4. QED
    BY <1>b, <2>1, <2>2, <2>3 DEF Uncounted, Rows
<1>3. ASSUME NEW w \in Workers, VerifyExhausted(w) PROVE P
  <2>1. \A i \in Rows : \/ otp_logs'[i] = otp_logs[i]
                        \/ otp_logs'[i] = [otp_logs[i] EXCEPT !.is_active = FALSE]
    <3> DEFINE log == req[w].log
               dead == [otp_logs[log] EXCEPT !.is_active = FALSE]
    <3>1. otp_logs' = [otp_logs EXCEPT ![log] = dead]
      BY <1>3 DEF VerifyExhausted
    <3>2. \A i \in Rows : otp_logs'[i] = IF i = log THEN dead ELSE otp_logs[i]
      <4> HIDE DEF dead
      <4> QED  BY <1>c, <3>1 DEF Rows
    <3>3. QED
      BY <3>2
  <2>2. Len(otp_logs') = Len(otp_logs) /\ ghost' = ghost
    BY <1>3 DEF VerifyExhausted, TypeOK, Rows
  <2>3. QED
    BY <1>b, <2>1, <2>2 DEF Uncounted, Rows
<1>4. CASE \/ \E w \in Workers :
              \/ \E phone \in Phones, purpose \in VALID_PURPOSES, entry \in Entry :
                     CreateOtp(w, phone, purpose, entry)
              \/ SendDelivered(w)
              \/ \E phone \in Phones, purpose \in VALID_PURPOSES, otp \in Codes :
                     VerifyLookup(w, phone, purpose, otp)
              \/ Abort(w)
              \/ WorkerRestart(w)
           \/ \E m \in outbox : Dispatch(m)
           \/ Tick
           \/ UNCHANGED vars
  BY <1>4 DEF Uncounted, Rows, CreateOtp, SendDelivered, VerifyLookup, Abort, WorkerRestart,
              Dispatch, Tick, vars
<1>5. QED
  BY <1>1, <1>2, <1>3, <1>4 DEF Next, WorkerStep

\* A step that neither counts nor compares changes the handler of one worker at most, and
\* the only copy of a count it makes is a true one.
LEMMA HandlersMove ==
  ASSUME TypeOK, [Next]_vars
  PROVE  \/ \E w \in Workers : VerifyCount(w) \/ VerifyCompare(w)
         \/ pc' = pc /\ req' = req
         \/ \E w \in Workers :
               /\ \A v \in Workers : v # w => pc'[v] = pc[v] /\ req'[v] = req[v]
               /\ \/ pc'[w] \notin {"count", "compare"}
                  \/ /\ pc[w] = "idle" /\ pc'[w] = "count" /\ otp_logs' = otp_logs
                     /\ req'[w].attempts = otp_logs[req'[w].log].attempts
<1> DEFINE P(w) == /\ \A v \in Workers : v # w => pc'[v] = pc[v] /\ req'[v] = req[v]
                   /\ \/ pc'[w] \notin {"count", "compare"}
                      \/ /\ pc[w] = "idle" /\ pc'[w] = "count" /\ otp_logs' = otp_logs
                         /\ req'[w].attempts = otp_logs[req'[w].log].attempts
<1>1. ASSUME NEW w \in Workers, NEW phone \in Phones, NEW purpose \in VALID_PURPOSES,
             NEW otp \in Codes, VerifyLookup(w, phone, purpose, otp)
      PROVE  P(w)
  BY <1>1 DEF VerifyLookup, TypeOK
<1>2. ASSUME NEW w \in Workers, NEW phone \in Phones, NEW purpose \in VALID_PURPOSES,
             NEW entry \in Entry, CreateOtp(w, phone, purpose, entry)
      PROVE  P(w)
  BY <1>2, OtpAssumption DEF CreateOtp, TypeOK
<1>3. ASSUME NEW w \in Workers, Return(w) PROVE P(w)
  BY <1>3 DEF Return, TypeOK
<1>4. ASSUME NEW w \in Workers, CreateWrite(w) PROVE P(w)
  BY <1>3, <1>4 DEF CreateWrite, TypeOK
<1>5. ASSUME NEW w \in Workers
      PROVE  SendDelivered(w) \/ SendFailed(w) \/ VerifyExhausted(w) \/ Abort(w)
             \/ WorkerRestart(w) => Return(w)
  BY DEF SendDelivered, SendFailed, VerifyExhausted, Abort, WorkerRestart
<1>6. (\E m \in outbox : Dispatch(m)) \/ Tick \/ UNCHANGED vars => pc' = pc /\ req' = req
  BY DEF Dispatch, Tick, vars
<1> HIDE DEF P
<1>7. \/ \E w \in Workers : VerifyCount(w) \/ VerifyCompare(w)
      \/ pc' = pc /\ req' = req
      \/ \E w \in Workers : P(w)
  BY <1>1, <1>2, <1>3, <1>4, <1>5, <1>6 DEF Next, WorkerStep
<1>8. QED
  BY <1>7 DEF P

\* With one worker no update of the attempts column is lost, so an OTP is compared at
\* most OTP_MAX_RETRIES times, as README.md:187 says; the guess race of several
\* workers is the run otp_guess_race.
THEOREM SingleWorkerBudget ==
  ASSUME NEW w \in Workers, Workers = {w}
  PROVE  Spec => []GuessBudget
<1> USE OtpAssumption
<1>1. Init => BudgetInv
  BY DEF Init, BudgetInv, Rows
<1>2. TypeOK /\ BudgetInv /\ [Next]_vars => BudgetInv'
  <2> SUFFICES ASSUME TypeOK, BudgetInv, [Next]_vars PROVE BudgetInv'
    OBVIOUS
  <2>a. \A i \in Rows : otp_logs[i] \in OTPLog /\ ghost[i] \in Ghost
    BY DEF TypeOK, Rows
  <2>1. ASSUME VerifyCount(w) PROVE BudgetInv'
    <3> DEFINE log == req[w].log  row == Counted(otp_logs[log], req[w].attempts)
    <3>1. log \in Rows /\ req[w].attempts = otp_logs[log].attempts
      BY <2>1 DEF VerifyCount, TypeOK, Verifying, BudgetInv, Rows
    <3>2. row.attempts = otp_logs[log].attempts + 1 /\ otp_logs[log].attempts \in Nat
      BY <2>a, <3>1 DEF Counted, OTPLog
    <3>3. otp_logs' = [otp_logs EXCEPT ![log] = row] /\ ghost' = ghost /\ req' = req
          /\ pc'[w] = "compare"
      BY <2>1 DEF VerifyCount, TypeOK
    <3> HIDE DEF row
    <3>4. /\ Rows' = Rows /\ otp_logs'[log] = row
          /\ \A i \in Rows : i # log => otp_logs'[i] = otp_logs[i]
      BY <3>1, <3>3 DEF TypeOK, Rows
    <3>5. ghost[log].guesses \in Nat /\ ghost[log].guesses <= otp_logs[log].attempts
      BY <2>a, <3>1 DEF Ghost, BudgetInv
    <3>6. ghost'[log].guesses < otp_logs'[log].attempts
      BY <3>2, <3>3, <3>4, <3>5
    <3>7. \A i \in Rows' : ghost'[i].guesses <= otp_logs'[i].attempts
      BY <3>2, <3>3, <3>4, <3>5 DEF BudgetInv
    <3>8. QED
      BY <3>3, <3>6, <3>7 DEF BudgetInv
  <2>2. ASSUME VerifyCompare(w) PROVE BudgetInv'
    <3> DEFINE log == req[w].log
    <3>1. log \in Rows /\ ghost[log].guesses < otp_logs[log].attempts
      BY <2>2 DEF VerifyCompare, TypeOK, Verifying, BudgetInv, Rows
    <3>2. /\ Rows' = Rows /\ pc'[w] = "idle"
          /\ \A i \in Rows : otp_logs'[i] = otp_logs[i] \/ otp_logs'[i] = MarkedUsed(otp_logs[i])
      BY <2>2 DEF VerifyCompare, Return, TypeOK, Rows
    <3>a. \A i \in Rows : MarkedUsed(otp_logs[i]).attempts = otp_logs[i].attempts
      BY <2>a DEF MarkedUsed, OTPLog
    <3>3. \A i \in Rows : otp_logs'[i].attempts = otp_logs[i].attempts
      BY <3>2, <3>a
    <3>4. \A i \in Rows : i # log => ghost'[i] = ghost[i]
      BY <2>2, <3>1 DEF VerifyCompare, TypeOK, Rows
    <3>5. ghost'[log].guesses = ghost[log].guesses + 1
      BY <2>2, <2>a, <3>1 DEF VerifyCompare, TypeOK, Rows, Ghost
    <3>6. ghost'[log].guesses <= otp_logs'[log].attempts
      BY <2>a, <3>1, <3>3, <3>5 DEF Ghost, OTPLog
    <3>7. QED
      BY <3>2, <3>3, <3>4, <3>6 DEF BudgetInv
  <2>3. ASSUME \A i \in Rows : Uncounted(i),
               \/ Rows' = Rows
               \/ /\ Rows' = Rows \cup {Len(otp_logs) + 1}
                  /\ otp_logs'[Len(otp_logs) + 1].attempts = 0
                  /\ ghost'[Len(otp_logs) + 1].guesses = 0,
               ~ VerifyCount(w), ~ VerifyCompare(w)
        PROVE BudgetInv'
    <3>1. \A i \in Rows' : ghost'[i].guesses <= otp_logs'[i].attempts
      BY <2>3 DEF BudgetInv, Uncounted
    <3>2. pc'[w] \in {"count", "compare"} =>
             \/ pc'[w] = pc[w] /\ req'[w] = req[w]
             \/ /\ pc'[w] = "count" /\ otp_logs' = otp_logs
                /\ req'[w].attempts = otp_logs[req'[w].log].attempts
      BY <2>3, HandlersMove
    <3>3. pc[w] \in {"count", "compare"} => req[w].log \in Rows
      BY DEF TypeOK, Verifying, Rows
    <3>4. /\ pc'[w] = "count" => req'[w].attempts = otp_logs'[req'[w].log].attempts
          /\ pc'[w] = "compare" => ghost'[req'[w].log].guesses < otp_logs'[req'[w].log].attempts
      BY <2>3, <3>2, <3>3 DEF BudgetInv, Uncounted
    <3>5. QED
      BY <3>1, <3>4 DEF BudgetInv
  <2>4. QED
    BY <2>1, <2>2, <2>3, CountersKept
<1>3. TypeOK /\ BudgetInv => GuessBudget
  <2> SUFFICES ASSUME TypeOK, BudgetInv, NEW i \in Rows
               PROVE  ghost[i].guesses <= OTP_MAX_RETRIES
    BY DEF GuessBudget
  <2>a. otp_logs[i] \in OTPLog /\ ghost[i] \in Ghost
    BY DEF TypeOK, Rows
  <2>1. otp_logs[i].attempts \in 0 .. OTP_MAX_RETRIES /\ ghost[i].guesses \in Nat
    BY <2>a DEF OTPLog, Ghost
  <2>2. ghost[i].guesses <= otp_logs[i].attempts
    BY DEF BudgetInv
  <2>3. OTP_MAX_RETRIES \in Nat
    BY DEF OtpAssumption
  <2>4. QED
    BY <2>1, <2>2, <2>3
<1>4. QED
  BY <1>1, <1>2, <1>3, Typing, PTL DEF Spec

-----------------------------------------------------------------------------
(* The guess race of several workers *)

\* The workers past the count k with row i: the row counts k, and w holds no copy of it
\* with less, so the row cannot be set back below k by w.
Past(i, k) ==
    {w \in Workers : /\ otp_logs[i].attempts >= k
                     /\ pc[w] = "count" /\ req[w].log = i => req[w].attempts >= k}

Progress(i) == [k \in 1 .. OTP_MAX_RETRIES |-> Cardinality(Past(i, k))]

\* The lexicographic order of courses.
Before(c, d) ==
    \E k \in 1 .. OTP_MAX_RETRIES :
        /\ c[k] < d[k]
        /\ \A j \in 1 .. (k - 1) : c[j] = d[j]

Earlier(i) == {c \in Courses : Before(c, Progress(i))}

\* The workers about to compare a code with row i.
About(i) == {w \in Workers : pc[w] = "compare" /\ req[w].log = i}

\* Each comparison, made or to come, has left a course behind.
RaceInv ==
    \A i \in Rows : ghost[i].guesses + Cardinality(About(i)) <= Cardinality(Earlier(i))

LEMMA CoursesFinite ==
  ASSUME IsFiniteSet(Workers)
  PROVE  IsFiniteSet(Courses)
<1> DEFINE D == 1 .. OTP_MAX_RETRIES
           E == 0 .. Cardinality(Workers)
           T == SUBSET (D \X E)
           graph == [c \in Courses |-> {<<k, c[k]>> : k \in D}]
<1>1. Cardinality(Workers) \in Nat /\ OTP_MAX_RETRIES \in Nat
  BY FS_CardinalityType, OtpAssumption
<1>2. IsFiniteSet(D) /\ IsFiniteSet(E)
  BY <1>1, FS_Interval
<1>3. IsFiniteSet(T)
  BY <1>2, FS_Product, FS_SUBSET
<1>4. graph \in [Courses -> T]
  <2>1. ASSUME NEW c \in Courses PROVE {<<k, c[k]>> : k \in D} \in T
    <3>1. c \in [D -> E]
      BY DEF Courses
    <3>2. QED
      BY <3>1
  <2>2. QED
    BY <2>1
<1>5. ASSUME NEW c \in Courses, NEW d \in Courses, graph[c] = graph[d]
      PROVE  c = d
  <2>1. \A k \in D : c[k] = d[k]
    <3>1. \A k \in D : <<k, c[k]>> \in graph[d]
      BY <1>5
    <3>2. QED
      BY <3>1
  <2>2. c \in [D -> E] /\ d \in [D -> E]
    BY DEF Courses
  <2> HIDE DEF D, E
  <2>3. QED
    BY <2>1, <2>2
<1>6. graph \in Injection(Courses, T)
  BY <1>4, <1>5 DEF Injection, IsInjective
<1>7. QED
  BY <1>3, <1>6, FS_Injection

LEMMA PastFinite ==
  ASSUME IsFiniteSet(Workers), NEW i, NEW k
  PROVE  /\ IsFiniteSet(Past(i, k))
         /\ Cardinality(Past(i, k)) \in 0 .. Cardinality(Workers)
<1>1. Past(i, k) \in SUBSET Workers
  BY DEF Past
<1>2. QED
  BY <1>1, FS_Subset, FS_CardinalityType

LEMMA AboutFinite ==
  ASSUME IsFiniteSet(Workers), NEW i
  PROVE  IsFiniteSet(About(i)) /\ Cardinality(About(i)) \in Nat
<1>1. About(i) \in SUBSET Workers
  BY DEF About
<1>2. QED
  BY <1>1, FS_Subset, FS_CardinalityType

\* The sizes of ever smaller sets of workers are a course.
LEMMA ShrinkingSets ==
  ASSUME IsFiniteSet(Workers), NEW F \in [1 .. OTP_MAX_RETRIES -> SUBSET Workers],
         \A j, k \in 1 .. OTP_MAX_RETRIES : j <= k => F[k] \subseteq F[j]
  PROVE  [k \in 1 .. OTP_MAX_RETRIES |-> Cardinality(F[k])] \in Courses
<1>1. \A k \in 1 .. OTP_MAX_RETRIES :
         IsFiniteSet(F[k]) /\ Cardinality(F[k]) \in 0 .. Cardinality(Workers)
  BY FS_Subset, FS_CardinalityType
<1>2. \A j, k \in 1 .. OTP_MAX_RETRIES : j <= k => Cardinality(F[j]) >= Cardinality(F[k])
  <2>1. \A j, k \in 1 .. OTP_MAX_RETRIES : j <= k => Cardinality(F[k]) <= Cardinality(F[j])
    BY <1>1, FS_Subset
  <2>2. QED
    BY <1>1, <2>1, FS_CardinalityType
<1>3. QED
  BY <1>1, <1>2 DEF Courses

LEMMA ProgressIsCourse ==
  ASSUME IsFiniteSet(Workers), TypeOK, NEW i \in Rows
  PROVE  Progress(i) \in Courses
<1> DEFINE F == [k \in 1 .. OTP_MAX_RETRIES |-> Past(i, k)]
<1>1. otp_logs[i].attempts \in Nat /\ \A w \in Workers : req[w].attempts \in Nat
  <2>1. otp_logs[i] \in OTPLog /\ \A w \in Workers : req[w] \in Request
    BY DEF TypeOK, Rows
  <2>2. QED
    BY <2>1 DEF OTPLog, Request
<1>2. F \in [1 .. OTP_MAX_RETRIES -> SUBSET Workers]
  BY DEF Past
<1>3. \A j, k \in 1 .. OTP_MAX_RETRIES : j <= k => F[k] \subseteq F[j]
  BY <1>1 DEF Past
<1>4. Progress(i) = [k \in 1 .. OTP_MAX_RETRIES |-> Cardinality(F[k])]
  BY DEF Progress
<1>5. QED
  BY <1>2, <1>3, <1>4, ShrinkingSets

LEMMA BeforeTransitive ==
  ASSUME NEW b \in Courses, NEW c \in Courses, NEW d \in Courses,
         IsFiniteSet(Workers), Before(b, c), Before(c, d)
  PROVE  Before(b, d)
<1>1. \A k \in 1 .. OTP_MAX_RETRIES : b[k] \in Nat /\ c[k] \in Nat /\ d[k] \in Nat
  BY FS_CardinalityType DEF Courses
<1>2. PICK k \in 1 .. OTP_MAX_RETRIES : b[k] < c[k] /\ \A j \in 1 .. (k - 1) : b[j] = c[j]
  BY DEF Before
<1>3. PICK m \in 1 .. OTP_MAX_RETRIES : c[m] < d[m] /\ \A j \in 1 .. (m - 1) : c[j] = d[j]
  BY DEF Before
<1>4. CASE k <= m
  <2>1. b[k] < d[k]
    BY <1>1, <1>2, <1>3, <1>4
  <2>2. \A j \in 1 .. (k - 1) : b[j] = d[j]
    BY <1>2, <1>3, <1>4
  <2>3. QED
    BY <2>1, <2>2 DEF Before
<1>5. CASE m < k
  <2>1. b[m] < d[m]
    BY <1>1, <1>2, <1>3, <1>5
  <2>2. \A j \in 1 .. (m - 1) : b[j] = d[j]
    BY <1>2, <1>3, <1>5
  <2>3. QED
    BY <2>1, <2>2 DEF Before
<1>6. QED
  BY <1>4, <1>5

\* No course is before itself, so a row has always courses to come.
LEMMA EarlierIsFew ==
  ASSUME IsFiniteSet(Workers), TypeOK, NEW i \in Rows
  PROVE  /\ IsFiniteSet(Earlier(i))
         /\ Cardinality(Earlier(i)) \in Nat
         /\ Cardinality(Earlier(i)) < Cardinality(Courses)
<1>1. Earlier(i) \in SUBSET Courses
  BY DEF Earlier
<1>2. ~ Before(Progress(i), Progress(i))
  <2>1. \A k \in 1 .. OTP_MAX_RETRIES : Progress(i)[k] \in Nat
    BY PastFinite, FS_CardinalityType DEF Progress
  <2>2. QED
    BY <2>1 DEF Before
<1>3. Progress(i) \in Courses \ Earlier(i)
  BY <1>2, ProgressIsCourse DEF Earlier
<1>4. QED
  <2>1. IsFiniteSet(Courses)
    BY CoursesFinite
  <2>2. /\ IsFiniteSet(Earlier(i))
        /\ Cardinality(Earlier(i)) <= Cardinality(Courses)
        /\ Cardinality(Earlier(i)) # Cardinality(Courses)
    BY <1>1, <1>3, <2>1, FS_Subset
  <2>3. Cardinality(Earlier(i)) \in Nat /\ Cardinality(Courses) \in Nat
    BY <2>1, <2>2, FS_CardinalityType
  <2>4. QED
    BY <2>2, <2>3

\* A row that moves on leaves at least one course behind.
LEMMA EarlierGrows ==
  ASSUME IsFiniteSet(Workers), TypeOK, TypeOK', NEW i \in Rows, i \in Rows',
         Before(Progress(i), Progress(i)')
  PROVE  Cardinality(Earlier(i)') >= Cardinality(Earlier(i)) + 1
<1> DEFINE P == Progress(i)
           Q == Progress(i)'
           S == Earlier(i)
           T == Earlier(i)'
<1>1. P \in Courses /\ Q \in Courses
  <2>1. P \in Courses
    BY ProgressIsCourse
  <2>2. Q \in Courses
    <3> DEFINE F == [k \in 1 .. OTP_MAX_RETRIES |-> Past(i, k)']
    <3>1. otp_logs'[i].attempts \in Nat /\ \A w \in Workers : req'[w].attempts \in Nat
      <4>1. otp_logs'[i] \in OTPLog /\ \A w \in Workers : req'[w] \in Request
        BY DEF TypeOK, Rows
      <4>2. QED
        BY <4>1 DEF OTPLog, Request
    <3>2. F \in [1 .. OTP_MAX_RETRIES -> SUBSET Workers]
      BY DEF Past
    <3>3. \A j, k \in 1 .. OTP_MAX_RETRIES : j <= k => F[k] \subseteq F[j]
      BY <3>1 DEF Past
    <3>4. Q = [k \in 1 .. OTP_MAX_RETRIES |-> Cardinality(F[k])]
      BY DEF Progress
    <3>5. QED
      BY <3>2, <3>3, <3>4, ShrinkingSets
  <2>3. QED
    BY <2>1, <2>2
<1>2. /\ IsFiniteSet(S) /\ Cardinality(S) \in Nat
      /\ P \notin S
  <2>1. \A k \in 1 .. OTP_MAX_RETRIES : P[k] \in Nat
    BY PastFinite, FS_CardinalityType DEF Progress
  <2>2. P \notin S
    BY <2>1 DEF Earlier, Before
  <2>3. QED
    BY <2>2, EarlierIsFew
<1>3. S \cup {P} \subseteq T
  <2>1. T = {c \in Courses : Before(c, Q)}
    BY DEF Earlier, Before, Courses
  <2>2. S = {c \in Courses : Before(c, P)}
    BY DEF Earlier
  <2>3. \A c \in S : Before(c, Q)
    <3> HIDE DEF P, Q, S, T
    <3> QED
      BY <1>1, <2>2, BeforeTransitive DEF P, Q
  <2>4. QED
    BY <1>1, <2>1, <2>2, <2>3
<1>4. IsFiniteSet(T)
  <2>1. T \in SUBSET Courses
    BY DEF Earlier, Courses
  <2>2. QED
    BY <2>1, CoursesFinite, FS_Subset
<1>5. Cardinality(S \cup {P}) = Cardinality(S) + 1 /\ Cardinality(S \cup {P}) <= Cardinality(T)
  <2> HIDE DEF P, S, T
  <2> QED
    BY <1>2, <1>3, <1>4, FS_AddElement, FS_Subset
<1>6. Cardinality(T) \in Nat
  BY <1>4, FS_CardinalityType
<1>7. QED
  BY <1>2, <1>5, <1>6

\* The first count that a worker gets past moves the row on.
LEMMA MovesOn ==
  ASSUME IsFiniteSet(Workers), NEW i, NEW d \in 1 .. OTP_MAX_RETRIES,
         \A k \in 1 .. (d - 1) : Past(i, k)' = Past(i, k),
         Past(i, d) \subseteq Past(i, d)', Past(i, d)' # Past(i, d)
  PROVE  Before(Progress(i), Progress(i)')
<1>1. OTP_MAX_RETRIES \in Nat
  BY OtpAssumption
<1>2. Past(i, d)' \in SUBSET Workers
  BY DEF Past
<1>3. Cardinality(Past(i, d)) < Cardinality(Past(i, d)')
  <2>1. IsFiniteSet(Past(i, d)')
    BY <1>2, FS_Subset
  <2>2. /\ Cardinality(Past(i, d)) <= Cardinality(Past(i, d)')
        /\ Cardinality(Past(i, d)) # Cardinality(Past(i, d)')
    BY <2>1, FS_Subset
  <2>3. Cardinality(Past(i, d)) \in Nat /\ Cardinality(Past(i, d)') \in Nat
    BY <2>1, PastFinite, FS_CardinalityType
  <2>4. QED
    BY <2>2, <2>3
<1>4. Progress(i)[d] < Progress(i)'[d]
  BY <1>3 DEF Progress
<1>5. \A k \in 1 .. (d - 1) : Progress(i)[k] = Progress(i)'[k]
  BY <1>1 DEF Progress
<1>6. QED
  BY <1>4, <1>5 DEF Before

\* A count that is written moves the row on, even when it sets the count back.
LEMMA CountMovesOn ==
  ASSUME IsFiniteSet(Workers), TypeOK, NEW w \in Workers, NEW i \in Rows,
         VerifyCount(w), req[w].log = i
  PROVE  Before(Progress(i), Progress(i)')
<1> DEFINE c == otp_logs[i].attempts
           h == req[w].attempts
<1>1. /\ i \in Rows /\ otp_logs[i] \in OTPLog /\ c \in 0 .. OTP_MAX_RETRIES
      /\ h \in Nat /\ h < OTP_MAX_RETRIES /\ OTP_MAX_RETRIES \in Nat
      /\ \A v \in Workers : req[v].attempts \in Nat
  <2>1. h < OTP_MAX_RETRIES
    BY DEF VerifyCount, TypeOK
  <2>2. otp_logs[i] \in OTPLog /\ \A v \in Workers : req[v] \in Request
    BY DEF TypeOK, Rows
  <2>3. QED
    BY <2>1, <2>2, OtpAssumption DEF OTPLog, Request
<1>2. otp_logs'[i].attempts = h + 1
  <2> DEFINE row == Counted(otp_logs[i], h)
  <2>1. row.attempts = h + 1
    BY <1>1 DEF Counted, OTPLog
  <2>2. otp_logs' = [otp_logs EXCEPT ![i] = row]
    BY DEF VerifyCount
  <2> HIDE DEF row
  <2>3. otp_logs'[i] = row
    BY <1>1, <2>2 DEF TypeOK, Rows
  <2>4. QED
    BY <2>1, <2>3
<1>3. /\ pc[w] = "count" /\ pc'[w] = "compare" /\ req' = req
      /\ \A v \in Workers : v # w => pc'[v] = pc[v]
  BY DEF VerifyCount, TypeOK
<1>4. PICK d \in 1 .. OTP_MAX_RETRIES : d = IF h < c THEN h + 1 ELSE c + 1
  BY <1>1
<1>5. \A k \in 1 .. (d - 1) : Past(i, k)' = Past(i, k)
  BY <1>1, <1>2, <1>3, <1>4 DEF Past
<1>6. Past(i, d) \subseteq Past(i, d)' /\ w \in Past(i, d)' /\ w \notin Past(i, d)
  BY <1>1, <1>2, <1>3, <1>4 DEF Past
<1>7. QED
  BY <1>5, <1>6, MovesOn

\* Where no copy of row i is lost or written, the row stays where it is.
LEMMA StaysPut ==
  ASSUME NEW i,
         \A k \in 1 .. OTP_MAX_RETRIES : Past(i, k)' = Past(i, k)
  PROVE  Progress(i)' = Progress(i)
BY DEF Progress

\* What the other steps do to a row: a handler that ends with a stale copy in its hands
\* moves the row on, and nobody comes to compare but by counting.
LEMMA OthersMoveOn ==
  ASSUME IsFiniteSet(Workers), TypeOK, [Next]_vars, NEW i \in Rows,
         ~ \E w \in Workers : VerifyCount(w) \/ VerifyCompare(w)
  PROVE  /\ About(i)' \subseteq About(i)
         /\ Progress(i)' = Progress(i) \/ Before(Progress(i), Progress(i)')
<1> DEFINE c == otp_logs[i].attempts
<1>1. otp_logs'[i].attempts = c
  BY CountersKept DEF Uncounted
<1>2. /\ c \in 0 .. OTP_MAX_RETRIES /\ OTP_MAX_RETRIES \in Nat
      /\ \A w \in Workers : req[w].attempts \in Nat
  <2>1. otp_logs[i] \in OTPLog /\ \A w \in Workers : req[w] \in Request
    BY DEF TypeOK, Rows
  <2>2. QED
    BY <2>1, OtpAssumption DEF OTPLog, Request
<1>3. CASE pc' = pc /\ req' = req
  <2>1. \A k \in 1 .. OTP_MAX_RETRIES : Past(i, k)' = Past(i, k)
    BY <1>1, <1>3 DEF Past
  <2>2. QED
    BY <1>3, <2>1, StaysPut DEF About
<1>4. ASSUME NEW w \in Workers,
             \A v \in Workers : v # w => pc'[v] = pc[v] /\ req'[v] = req[v],
             pc'[w] \notin {"count", "compare"}
      PROVE  /\ About(i)' \subseteq About(i)
             /\ Progress(i)' = Progress(i) \/ Before(Progress(i), Progress(i)')
  <2>1. About(i)' \subseteq About(i)
    BY <1>4 DEF About
  <2>2. CASE pc[w] = "count" /\ req[w].log = i /\ req[w].attempts < c
    <3>1. PICK d \in 1 .. OTP_MAX_RETRIES : d = req[w].attempts + 1
      BY <1>2, <2>2
    <3>2. \A k \in 1 .. (d - 1) : Past(i, k)' = Past(i, k)
      BY <1>1, <1>2, <1>4, <2>2, <3>1 DEF Past
    <3>3. Past(i, d) \subseteq Past(i, d)' /\ w \in Past(i, d)' /\ w \notin Past(i, d)
      BY <1>1, <1>2, <1>4, <2>2, <3>1 DEF Past
    <3>4. QED
      BY <2>1, <3>2, <3>3, MovesOn
  <2>3. CASE ~ (pc[w] = "count" /\ req[w].log = i /\ req[w].attempts < c)
    <3>1. \A k \in 1 .. OTP_MAX_RETRIES : Past(i, k)' = Past(i, k)
      BY <1>1, <1>2, <1>4, <2>3 DEF Past
    <3>2. QED
      BY <2>1, <3>1, StaysPut
  <2>4. QED
    BY <2>2, <2>3
<1>5. ASSUME NEW w \in Workers,
             \A v \in Workers : v # w => pc'[v] = pc[v] /\ req'[v] = req[v],
             pc[w] = "idle", pc'[w] = "count", otp_logs' = otp_logs,
             req'[w].attempts = otp_logs[req'[w].log].attempts
      PROVE  About(i)' \subseteq About(i) /\ Progress(i)' = Progress(i)
  <2>1. \A k \in 1 .. OTP_MAX_RETRIES : Past(i, k)' = Past(i, k)
    BY <1>1, <1>5 DEF Past
  <2>2. About(i)' \subseteq About(i)
    BY <1>5 DEF About
  <2>3. QED
    BY <2>1, <2>2, StaysPut
<1>6. QED
  BY <1>3, <1>4, <1>5, HandlersMove

\* Counting or comparing with one row is nothing to another.
LEMMA OtherRowStaysPut ==
  ASSUME IsFiniteSet(Workers), TypeOK, NEW i \in Rows, NEW w \in Workers,
         VerifyCount(w) \/ VerifyCompare(w), req[w].log # i
  PROVE  /\ About(i)' = About(i)
         /\ Progress(i)' = Progress(i)
         /\ ghost'[i].guesses = ghost[i].guesses
<1>1. /\ \A v \in Workers : v # w => pc'[v] = pc[v] /\ req'[v] = req[v]
      /\ pc'[w] \in {"idle", "compare"} /\ pc[w] \in {"count", "compare"}
      /\ pc'[w] = "compare" => req'[w] = req[w]
  BY DEF VerifyCount, VerifyCompare, Return, TypeOK
<1>2. req[w].log \in Rows
  BY <1>1 DEF TypeOK, Verifying
<1>3. otp_logs'[i] = otp_logs[i] /\ ghost'[i] = ghost[i]
  BY <1>2 DEF VerifyCount, VerifyCompare, TypeOK, Rows
<1>4. \A k \in 1 .. OTP_MAX_RETRIES : Past(i, k)' = Past(i, k)
  BY <1>1, <1>3 DEF Past
<1>5. About(i)' = About(i)
  BY <1>1 DEF About
<1>6. QED
  BY <1>3, <1>4, <1>5, StaysPut

LEMMA CompareStaysPut ==
  ASSUME IsFiniteSet(Workers), TypeOK, NEW i \in Rows, NEW w \in Workers,
         VerifyCompare(w), req[w].log = i
  PROVE  /\ About(i)' = About(i) \ {w} /\ w \in About(i)
         /\ Progress(i)' = Progress(i)
         /\ ghost'[i].guesses = ghost[i].guesses + 1
<1>1. otp_logs[i] \in OTPLog /\ ghost[i] \in Ghost
  BY DEF TypeOK, Rows
<1>2. otp_logs'[i] = otp_logs[i] \/ otp_logs'[i] = MarkedUsed(otp_logs[i])
  BY DEF VerifyCompare, TypeOK, Rows
<1>3. otp_logs'[i].attempts = otp_logs[i].attempts
  BY <1>1, <1>2 DEF MarkedUsed, OTPLog
<1>4. ghost'[i].guesses = ghost[i].guesses + 1
  <2> DEFINE g == [ghost[i] EXCEPT !.guesses = ghost[i].guesses + 1]
  <2>1. g.guesses = ghost[i].guesses + 1
    BY <1>1 DEF Ghost
  <2>2. ghost' = [ghost EXCEPT ![i] = g]
    BY DEF VerifyCompare
  <2> HIDE DEF g
  <2>3. ghost'[i] = g
    BY <2>2 DEF TypeOK, Rows
  <2>4. QED
    BY <2>1, <2>3
<1>5. /\ pc[w] = "compare" /\ pc'[w] = "idle"
      /\ \A v \in Workers : v # w => pc'[v] = pc[v] /\ req'[v] = req[v]
  BY DEF VerifyCompare, Return, TypeOK
<1>6. \A k \in 1 .. OTP_MAX_RETRIES : Past(i, k)' = Past(i, k)
  BY <1>3, <1>5 DEF Past
<1>7. About(i)' = About(i) \ {w} /\ w \in About(i)
  BY <1>5 DEF About
<1>8. QED
  BY <1>4, <1>6, <1>7, StaysPut

\* A row that stays put, or moves on and leaves room for one comparison more.
LEMMA RaceKept ==
  ASSUME IsFiniteSet(Workers), TypeOK, TypeOK', NEW i \in Rows, i \in Rows',
         NEW more \in {0, 1},
         ghost'[i].guesses + Cardinality(About(i)')
            <= ghost[i].guesses + Cardinality(About(i)) + more,
         \/ more = 0 /\ Progress(i)' = Progress(i)
         \/ Before(Progress(i), Progress(i)'),
         ghost[i].guesses + Cardinality(About(i)) <= Cardinality(Earlier(i))
  PROVE  ghost'[i].guesses + Cardinality(About(i)') <= Cardinality(Earlier(i)')
<1>1. /\ ghost[i].guesses \in Nat /\ ghost'[i].guesses \in Nat
      /\ Cardinality(Earlier(i)) \in Nat /\ Cardinality(Earlier(i)') \in Nat
      /\ Cardinality(About(i)) \in Nat /\ Cardinality(About(i)') \in Nat
  <2>1. ghost[i] \in Ghost /\ ghost'[i] \in Ghost
    BY DEF TypeOK, Rows
  <2>2. About(i)' \in SUBSET Workers /\ Earlier(i)' \in SUBSET Courses
    BY DEF About, Earlier, Courses
  <2>3. QED
    BY <2>1, <2>2, AboutFinite, EarlierIsFew, CoursesFinite, FS_Subset, FS_CardinalityType
    DEF Ghost
<1>2. CASE more = 0 /\ Progress(i)' = Progress(i)
  <2>1. Earlier(i)' = Earlier(i)
    BY <1>2 DEF Earlier, Before, Courses
  <2>2. QED
    BY <1>1, <1>2, <2>1
<1>3. CASE Before(Progress(i), Progress(i)')
  BY <1>1, <1>3, EarlierGrows
<1>4. QED
  BY <1>2, <1>3

\* However many workers race for an OTP and whatever becomes of their updates, it is
\* compared fewer times than there are courses: each comparison was counted, each count
\* takes the row to a later course, and so does losing a stale copy of it.
THEOREM GuessRace ==
  ASSUME IsFiniteSet(Workers)
  PROVE  Spec => []GuessRaceBounded
<1>1. Init => RaceInv
  BY DEF Init, RaceInv, Rows
<1>2. TypeOK /\ TypeOK' /\ RaceInv /\ [Next]_vars => RaceInv'
  <2> SUFFICES ASSUME TypeOK, TypeOK', RaceInv, [Next]_vars, NEW i \in Rows'
               PROVE  ghost'[i].guesses + Cardinality(About(i)') <= Cardinality(Earlier(i)')
    BY DEF RaceInv
  <2>a. \A w \in Workers : pc[w] = "compare" => req[w].log \in Rows
    BY DEF TypeOK, Verifying
  <2>1. CASE i \notin Rows
    <3>1. ASSUME NEW w \in Workers PROVE ~ VerifyCount(w) /\ ~ VerifyCompare(w)
      <4>1. VerifyCount(w) \/ VerifyCompare(w) => Len(otp_logs') = Len(otp_logs)
        BY DEF VerifyCount, VerifyCompare, TypeOK
      <4>2. QED
        BY <2>1, <4>1 DEF Rows
    <3>2. ghost'[i].guesses = 0
      BY <2>1, <3>1, CountersKept
    <3>3. About(i)' = {}
      BY <2>1, <2>a, <3>1, HandlersMove DEF About
    <3>4. Cardinality(Earlier(i)') \in Nat
      <4>1. Earlier(i)' \in SUBSET Courses
        BY DEF Earlier, Courses
      <4>2. QED
        BY <4>1, CoursesFinite, FS_Subset, FS_CardinalityType
    <3>5. QED
      BY <3>2, <3>3, <3>4, FS_EmptySet
  <2>2. CASE i \in Rows
    <3>a. ghost[i].guesses \in Nat
      <4>1. ghost[i] \in Ghost
        BY <2>2 DEF TypeOK, Rows
      <4>2. QED
        BY <4>1 DEF Ghost
    <3>b. ghost[i].guesses + Cardinality(About(i)) <= Cardinality(Earlier(i))
      BY <2>2 DEF RaceInv
    <3>c. IsFiniteSet(About(i)) /\ Cardinality(About(i)) \in Nat
      BY AboutFinite
    <3>1. ASSUME NEW w \in Workers, VerifyCount(w), req[w].log = i
          PROVE  ghost'[i].guesses + Cardinality(About(i)') <= Cardinality(Earlier(i)')
      <4>1. ghost' = ghost /\ About(i)' = About(i) \cup {w}
        BY <3>1 DEF VerifyCount, TypeOK, About
      <4>2. Cardinality(About(i)') <= Cardinality(About(i)) + 1 /\ Cardinality(About(i)') \in Nat
        <5>1. Cardinality(About(i) \cup {w})
                 = IF w \in About(i) THEN Cardinality(About(i)) ELSE Cardinality(About(i)) + 1
          BY <3>c, FS_AddElement
        <5>2. QED
          BY <3>c, <4>1, <5>1
      <4>3. Before(Progress(i), Progress(i)')
        BY <2>2, <3>1, CountMovesOn
      <4>4. ghost'[i].guesses + Cardinality(About(i)')
               <= ghost[i].guesses + Cardinality(About(i)) + 1
        BY <3>a, <3>c, <4>1, <4>2
      <4>5. QED
        BY <2>2, <3>b, <4>3, <4>4, RaceKept
    <3>2. ASSUME NEW w \in Workers, VerifyCompare(w), req[w].log = i
          PROVE  ghost'[i].guesses + Cardinality(About(i)') <= Cardinality(Earlier(i)')
      <4>1. /\ About(i)' = About(i) \ {w} /\ w \in About(i)
            /\ Progress(i)' = Progress(i)
            /\ ghost'[i].guesses = ghost[i].guesses + 1
        BY <2>2, <3>2, CompareStaysPut
      <4>2. Cardinality(About(i)') = Cardinality(About(i)) - 1
        BY <3>c, <4>1, FS_RemoveElement
      <4>3. ghost'[i].guesses + Cardinality(About(i)')
               <= ghost[i].guesses + Cardinality(About(i)) + 0
        BY <3>a, <3>c, <4>1, <4>2
      <4>4. QED
        BY <2>2, <3>b, <4>1, <4>3, RaceKept
    <3>3. ASSUME NEW w \in Workers, VerifyCount(w) \/ VerifyCompare(w), req[w].log # i
          PROVE  ghost'[i].guesses + Cardinality(About(i)') <= Cardinality(Earlier(i)')
      <4>1. /\ About(i)' = About(i)
            /\ Progress(i)' = Progress(i)
            /\ ghost'[i].guesses = ghost[i].guesses
        BY <2>2, <3>3, OtherRowStaysPut
      <4>2. ghost'[i].guesses + Cardinality(About(i)')
               <= ghost[i].guesses + Cardinality(About(i)) + 0
        BY <3>a, <3>c, <4>1
      <4>3. QED
        BY <2>2, <3>b, <4>1, <4>2, RaceKept
    <3>4. CASE ~ \E w \in Workers : VerifyCount(w) \/ VerifyCompare(w)
      <4>1. /\ About(i)' \subseteq About(i)
            /\ Progress(i)' = Progress(i) \/ Before(Progress(i), Progress(i)')
        BY <2>2, <3>4, OthersMoveOn
      <4>2. Cardinality(About(i)') <= Cardinality(About(i)) /\ Cardinality(About(i)') \in Nat
        BY <3>c, <4>1, FS_Subset, FS_CardinalityType
      <4>3. ghost'[i].guesses = ghost[i].guesses
        BY <2>2, <3>4, CountersKept DEF Uncounted
      <4>4. ghost'[i].guesses + Cardinality(About(i)')
               <= ghost[i].guesses + Cardinality(About(i)) + 0
        BY <3>a, <3>c, <4>2, <4>3
      <4>5. QED
        BY <2>2, <3>b, <4>1, <4>4, RaceKept
    <3>5. QED
      BY <3>1, <3>2, <3>3, <3>4
  <2>3. QED
    BY <2>1, <2>2
<1>3. TypeOK /\ RaceInv => GuessRaceBounded
  <2> SUFFICES ASSUME TypeOK, RaceInv, NEW i \in Rows
               PROVE  ghost[i].guesses < Cardinality(Courses)
    BY DEF GuessRaceBounded
  <2>1. ghost[i] \in Ghost
    BY DEF TypeOK, Rows
  <2>2. ghost[i].guesses \in Nat /\ Cardinality(About(i)) \in Nat
    BY <2>1, AboutFinite DEF Ghost
  <2>3. /\ Cardinality(Earlier(i)) \in Nat
        /\ Cardinality(Earlier(i)) < Cardinality(Courses)
    BY EarlierIsFew
  <2>4. ghost[i].guesses + Cardinality(About(i)) <= Cardinality(Earlier(i))
    BY DEF RaceInv
  <2>5. Cardinality(Courses) \in Nat
    BY CoursesFinite, FS_CardinalityType
  <2>6. QED
    BY <2>2, <2>3, <2>4, <2>5
<1>4. QED
  BY <1>1, <1>2, <1>3, Typing, PTL DEF Spec

-----------------------------------------------------------------------------
(* Spacing *)

\* A worker about to insert has seen no row of the key younger than the limit,
\* and has added none since: what it reads of its own rows is not stale.
SpacingInv ==
    /\ SpacedPerWorker
    /\ \A i \in Rows : otp_logs[i].created_at <= now
    /\ \A w \in Workers : pc[w] \in {"create", "send"} =>
          \A i \in Rows :
             /\ SameKey(otp_logs[i], req[w].phone, req[w].purpose)
             /\ ghost[i].creator = w
             => otp_logs[i].created_at + OTP_RATE_LIMIT <= now

LEMMA SpacingInvariant == Spec => []SpacingInv
<1> USE OtpAssumption
<1>1. Init => SpacingInv
  BY DEF Init, SpacingInv, SpacedPerWorker, Rows
<1>2. TypeOK /\ SpacingInv /\ [Next]_vars => SpacingInv'
  <2> SUFFICES ASSUME TypeOK, SpacingInv, [Next]_vars PROVE SpacingInv'
    OBVIOUS
  <2>a. /\ now \in Nat
        /\ \A i \in Rows : otp_logs[i].created_at \in Nat
    <3>1. \A i \in Rows : otp_logs[i] \in OTPLog
      BY DEF TypeOK, Rows
    <3>2. QED
      BY <3>1 DEF TypeOK, OTPLog
  <2>b. now' \in Nat /\ now <= now'
    <3>1. ASSUME NEW w \in Workers, WorkerStep(w) PROVE now' = now
      BY <3>1 DEF WorkerStep, CreateOtp, CreateWrite, SendDelivered, SendFailed, VerifyLookup,
                  VerifyExhausted, VerifyCount, VerifyCompare, Abort, WorkerRestart
    <3>2. CASE (\E m \in outbox : Dispatch(m)) \/ UNCHANGED vars
      BY <2>a, <3>2 DEF Dispatch, vars
    <3>3. CASE Tick
      BY <2>a, <3>3 DEF Tick
    <3>4. QED
      BY <2>a, <3>1, <3>2, <3>3 DEF Next
  <2>c. ASSUME Len(otp_logs') = Len(otp_logs),
               \A v \in Workers : pc'[v] \in {"create", "send"} =>
                  \/ pc[v] = pc'[v] /\ req'[v] = req[v]
                  \/ /\ now' = now
                     /\ check_rate_limit(req'[v].phone, req'[v].purpose)
        PROVE SpacingInv'
    <3>1. Rows' = Rows
      BY <2>c DEF Rows
    <3>2. \A i \in Rows : RowKept(i)
      BY RowsKept
    <3>3. SpacedPerWorker'
      BY <3>1, <3>2 DEF SpacingInv, SpacedPerWorker, RowKept, SameKey
    <3>4. \A i \in Rows : otp_logs'[i].created_at <= now'
      BY <2>a, <2>b, <3>2 DEF SpacingInv, RowKept
    <3>5. ASSUME NEW v \in Workers, pc'[v] \in {"create", "send"}, NEW i \in Rows,
                 SameKey(otp_logs'[i], req'[v].phone, req'[v].purpose),
                 ghost'[i].creator = v
          PROVE otp_logs'[i].created_at + OTP_RATE_LIMIT <= now'
      <4>1. /\ SameKey(otp_logs[i], req'[v].phone, req'[v].purpose)
            /\ ghost[i].creator = v
            /\ otp_logs'[i].created_at = otp_logs[i].created_at
        BY <3>2, <3>5 DEF RowKept, SameKey
      <4>2. CASE pc[v] = pc'[v] /\ req'[v] = req[v]
        BY <2>a, <2>b, <3>5, <4>1, <4>2 DEF SpacingInv
      <4>3. CASE now' = now /\ check_rate_limit(req'[v].phone, req'[v].purpose)
        BY <2>a, <4>1, <4>3 DEF check_rate_limit
      <4>4. QED
        BY <2>c, <3>5, <4>2, <4>3
    <3>6. QED
      BY <3>1, <3>3, <3>4, <3>5 DEF SpacingInv
  <2>1. ASSUME NEW w \in Workers, CreateWrite(w) PROVE SpacingInv'
    <3> DEFINE phone == req[w].phone
               purpose == req[w].purpose
               new == Len(otp_logs) + 1
    <3>1. PICK otp \in Codes :
             otp_logs' = Append(invalidate_existing(phone, purpose),
                                NewLog(phone, purpose, otp))
      BY <2>1 DEF CreateWrite
    <3>2. otp_logs \in Seq(OTPLog)
      BY DEF TypeOK
    <3>3. /\ Len(otp_logs') = new
          /\ otp_logs'[new] = NewLog(phone, purpose, otp)
      BY <3>1, <3>2, InvalidateKeeps
    <3>4. /\ otp_logs'[new].phone_number = phone
          /\ otp_logs'[new].purpose = purpose
          /\ otp_logs'[new].created_at = now
      BY <3>3 DEF NewLog
    <3>5. Rows' = Rows \cup {new} /\ Rows \subseteq Nat /\ \A i \in Rows : i < new
      BY <3>2, <3>3 DEF Rows
    <3>6. ghost'[new].creator = w /\ now' = now
      BY <2>1 DEF CreateWrite, TypeOK
    <3>7. \A i \in Rows : RowKept(i)
      BY RowsKept
    <3>8. SpacedPerWorker'
      <4> SUFFICES ASSUME NEW i \in Rows', NEW j \in Rows', i < j,
                          SameKey(otp_logs'[i], otp_logs'[j].phone_number, otp_logs'[j].purpose),
                          ghost'[i].creator = ghost'[j].creator
                   PROVE  otp_logs'[i].created_at + OTP_RATE_LIMIT <= otp_logs'[j].created_at
        BY DEF SpacedPerWorker
      <4>1. CASE i \in Rows /\ j \in Rows
        BY <3>7, <4>1 DEF SpacingInv, SpacedPerWorker, RowKept, SameKey
      <4>2. CASE i \in Rows /\ j = new
        <5>1. SameKey(otp_logs[i], phone, purpose) /\ ghost[i].creator = w
          BY <3>4, <3>6, <3>7, <4>2 DEF RowKept, SameKey
        <5>2. pc[w] \in {"create", "send"}
          BY <2>1 DEF CreateWrite
        <5>3. otp_logs[i].created_at + OTP_RATE_LIMIT <= now
          BY <4>2, <5>1, <5>2 DEF SpacingInv
        <5>4. QED
          BY <3>4, <3>7, <4>2, <5>3 DEF RowKept
      <4>3. QED
        BY <3>5, <4>1, <4>2
    <3>9. \A i \in Rows' : otp_logs'[i].created_at <= now'
      BY <2>a, <3>4, <3>5, <3>6, <3>7 DEF SpacingInv, RowKept
    <3>10. /\ \A v \in Workers : v # w => pc'[v] = pc[v] /\ req'[v] = req[v]
           /\ pc'[w] \in {"idle", "sending"}
      BY <2>1 DEF CreateWrite, Return, TypeOK
    <3>11. ASSUME NEW v \in Workers, pc'[v] \in {"create", "send"}, NEW i \in Rows',
                  SameKey(otp_logs'[i], req'[v].phone, req'[v].purpose),
                  ghost'[i].creator = v
           PROVE otp_logs'[i].created_at + OTP_RATE_LIMIT <= now'
      <4>1. v # w /\ i # new
        BY <3>6, <3>10, <3>11
      <4>2. i \in Rows /\ SameKey(otp_logs[i], req[v].phone, req[v].purpose)
            /\ ghost[i].creator = v
        BY <3>5, <3>7, <3>10, <3>11, <4>1 DEF RowKept, SameKey
      <4>3. QED
        BY <3>6, <3>7, <3>10, <3>11, <4>1, <4>2 DEF SpacingInv, RowKept
    <3>12. QED
      BY <3>8, <3>9, <3>11 DEF SpacingInv
  <2>2. ASSUME NEW w \in Workers, NEW phone \in Phones, NEW purpose \in VALID_PURPOSES,
               NEW entry \in Entry, CreateOtp(w, phone, purpose, entry)
        PROVE SpacingInv'
    <3>1. /\ req'[w].phone = phone /\ req'[w].purpose = purpose
          /\ \A v \in Workers : v # w => pc'[v] = pc[v] /\ req'[v] = req[v]
      BY <2>2 DEF CreateOtp, TypeOK, NoRequest
    <3>2. QED
      BY <2>2, <2>c, <3>1 DEF CreateOtp
  <2>3. ASSUME NEW w \in Workers, NEW phone \in Phones, NEW purpose \in VALID_PURPOSES,
               NEW otp \in Codes, VerifyLookup(w, phone, purpose, otp)
        PROVE SpacingInv'
    <3>1. /\ \A v \in Workers : v # w => pc'[v] = pc[v] /\ req'[v] = req[v]
          /\ pc'[w] \in {"count", "exhaust"}
          /\ otp_logs' = otp_logs
      BY <2>3 DEF VerifyLookup, TypeOK
    <3>2. QED
      BY <2>c, <3>1
  <2>4. ASSUME NEW w \in Workers, \/ SendDelivered(w) \/ SendFailed(w)
                                  \/ VerifyExhausted(w) \/ VerifyCompare(w)
                                  \/ Abort(w) \/ WorkerRestart(w)
        PROVE SpacingInv'
    <3>1. Return(w)
      BY <2>4 DEF SendDelivered, SendFailed, VerifyExhausted, VerifyCompare, Abort, WorkerRestart
    <3>2. Len(otp_logs') = Len(otp_logs)
      <4>1. otp_logs \in Seq(OTPLog)
        BY DEF TypeOK
      <4>2. CASE SendFailed(w)
        BY <4>1, <4>2, InvalidateKeeps DEF SendFailed
      <4>3. CASE VerifyExhausted(w)
        BY <4>1, <4>3 DEF VerifyExhausted
      <4>4. CASE VerifyCompare(w)
        BY <4>1, <4>4 DEF VerifyCompare
      <4>5. CASE SendDelivered(w) \/ Abort(w) \/ WorkerRestart(w)
        BY <4>5 DEF SendDelivered, Abort, WorkerRestart
      <4>6. QED
        BY <2>4, <4>2, <4>3, <4>4, <4>5
    <3>3. QED
      BY <2>c, <3>1, <3>2 DEF Return, TypeOK
  <2>5. ASSUME NEW w \in Workers, VerifyCount(w) PROVE SpacingInv'
    <3>1. Len(otp_logs') = Len(otp_logs)
      BY <2>5 DEF VerifyCount, TypeOK
    <3>2. /\ \A v \in Workers : v # w => pc'[v] = pc[v]
          /\ pc'[w] = "compare" /\ req' = req
      BY <2>5 DEF VerifyCount, TypeOK
    <3>3. QED
      BY <2>c, <3>1, <3>2
  <2>6. CASE (\E m \in outbox : Dispatch(m)) \/ Tick \/ UNCHANGED vars
    BY <2>6, <2>c DEF Dispatch, Tick, vars
  <2>7. QED
    BY <2>1, <2>2, <2>3, <2>4, <2>5, <2>6 DEF Next, WorkerStep
<1>3. QED
  BY <1>1, <1>2, Typing, PTL DEF Spec

\* For any number of workers, one worker's OTPs of a key are OTP_RATE_LIMIT apart.
THEOREM Spaced == Spec => []SpacedPerWorker
BY SpacingInvariant, PTL DEF SpacingInv

\* With one worker process the limit of README.md:188 holds.
THEOREM SingleWorkerRateLimit ==
  ASSUME NEW w \in Workers, Workers = {w}
  PROVE  Spec => []RateLimit
<1>1. TypeOK /\ SpacedPerWorker => RateLimit
  <2> SUFFICES ASSUME TypeOK, SpacedPerWorker PROVE RateLimit
    OBVIOUS
  <2>1. \A i \in Rows : ghost[i] \in Ghost
    BY DEF TypeOK, Rows
  <2>2. \A i \in Rows : ghost[i].creator = w
    BY <2>1 DEF Ghost
  <2>3. QED
    BY <2>2 DEF SpacedPerWorker, RateLimit
<1>2. QED
  BY <1>1, Spaced, Typing, PTL

-----------------------------------------------------------------------------
(* The desk *)

Key(i) == <<otp_logs[i].phone_number, otp_logs[i].purpose>>

DeskRows == [i \in Rows |-> [key |-> Key(i), live |-> otp_logs[i].is_active]]

DeskLoaded == [w \in Workers |-> IF pc[w] \in Verifying THEN req[w].log ELSE 0]

\* The picture of the table under a bulk UPDATE.
LEMMA InvalidateIsRevoke ==
  ASSUME TypeOK, NEW phone, NEW purpose
  PROVE  LET t == invalidate_existing(phone, purpose) IN
         [i \in Rows |-> [key |-> <<t[i].phone_number, t[i].purpose>>, live |-> t[i].is_active]]
         = Desk!Revoked(<<phone, purpose>>)
<1> DEFINE t == invalidate_existing(phone, purpose)
<1>1. \A i \in Rows : otp_logs[i] \in OTPLog
  BY DEF TypeOK, Rows
<1>2. ASSUME NEW i \in Rows
      PROVE  [key |-> <<t[i].phone_number, t[i].purpose>>, live |-> t[i].is_active]
             = IF DeskRows[i].key = <<phone, purpose>>
               THEN Desk!Dead(DeskRows[i]) ELSE DeskRows[i]
  <2>1. DeskRows[i] = [key |-> Key(i), live |-> otp_logs[i].is_active]
    BY DEF DeskRows
  <2>2. t[i] = IF SameKey(otp_logs[i], phone, purpose)
               THEN [otp_logs[i] EXCEPT !.is_active = FALSE] ELSE otp_logs[i]
    BY DEF invalidate_existing
  <2>3. DeskRows[i].key = <<phone, purpose>> <=> SameKey(otp_logs[i], phone, purpose)
    BY <2>1 DEF Key, SameKey
  <2>4. CASE SameKey(otp_logs[i], phone, purpose)
    <3>1. /\ t[i].phone_number = otp_logs[i].phone_number
          /\ t[i].purpose = otp_logs[i].purpose
          /\ t[i].is_active = FALSE
      BY <1>1, <2>2, <2>4 DEF OTPLog
    <3>2. Desk!Dead(DeskRows[i]) = [key |-> Key(i), live |-> FALSE]
      BY <2>1 DEF Desk!Dead
    <3>3. QED
      BY <2>3, <2>4, <3>1, <3>2 DEF Key
  <2>5. CASE ~SameKey(otp_logs[i], phone, purpose)
    BY <2>1, <2>2, <2>3, <2>5 DEF Key
  <2>6. QED
    BY <2>4, <2>5
<1>3. QED
  BY <1>2 DEF Desk!Revoked, Desk!Dead, DeskRows, Key

\* Every step over otp_logs is a step of the desk, or nothing to it: the routes may be
\* understood with the desk in the place of the service.
THEOREM Implements == Spec => ImplementsDesk
<1> USE DEF DeskRows, DeskLoaded, Key
<1>1. Init => Desk!Init
  BY DEF Init, Desk!Init, Rows, Verifying
<1>2. TypeOK /\ [Next]_vars => [Desk!Next]_<<DeskRows, DeskLoaded, accepts>>
  <2> SUFFICES ASSUME TypeOK, [Next]_vars
               PROVE  [Desk!Next]_<<DeskRows, DeskLoaded, accepts>>
    OBVIOUS
  <2>a. \A i \in Rows : otp_logs[i] \in OTPLog
    BY DEF TypeOK, Rows
  <2>b. otp_logs \in Seq(OTPLog) /\ Rows = 1 .. Len(otp_logs) /\ Rows \subseteq Nat \ {0}
    BY DEF TypeOK, Rows
  <2>c. \A w \in Workers : DeskLoaded[w] = IF pc[w] \in Verifying THEN req[w].log ELSE 0
    OBVIOUS
  <2>d. \A w \in Workers : pc[w] \in Verifying => req[w].log \in Rows
    BY DEF TypeOK
  \* A handler that returns lets go of the row it had loaded.
  <2>e. ASSUME NEW w \in Workers, Return(w)
        PROVE  DeskLoaded' = [DeskLoaded EXCEPT ![w] = 0]
    BY <2>e DEF Return, TypeOK, Verifying
  <2>f. ASSUME NEW w \in Workers, Return(w), UNCHANGED <<otp_logs, accepts>>
        PROVE  [Desk!Next]_<<DeskRows, DeskLoaded, accepts>>
    <3>1. DeskRows' = DeskRows /\ DeskLoaded' = [DeskLoaded EXCEPT ![w] = 0]
      BY <2>e, <2>f DEF Rows, Key
    <3>2. CASE pc[w] \in Verifying
      <4>1. Desk!Refuse(w)
        BY <2>b, <2>c, <2>d, <2>f, <3>1, <3>2 DEF Desk!Refuse, Key
      <4>2. QED
        BY <4>1 DEF Desk!Next
    <3>3. CASE pc[w] \notin Verifying
      BY <2>f, <3>1, <3>3
    <3>4. QED
      BY <3>2, <3>3
  <2>1. CASE UNCHANGED vars
    BY <2>1 DEF vars, Rows, Key
  <2>2. ASSUME NEW w \in Workers, NEW phone \in Phones, NEW purpose \in VALID_PURPOSES,
               NEW entry \in Entry, CreateOtp(w, phone, purpose, entry)
        PROVE  UNCHANGED <<DeskRows, DeskLoaded, accepts>>
    <3>1. entry \notin Verifying
      BY OtpAssumption DEF Verifying
    <3>2. UNCHANGED <<DeskRows, accepts>>
      BY <2>2 DEF CreateOtp, Rows, Key
    <3>3. DeskLoaded' = DeskLoaded
      BY <2>2, <3>1 DEF CreateOtp, TypeOK, Verifying
    <3>4. QED
      BY <3>2, <3>3
  <2>3. ASSUME NEW w \in Workers, CreateWrite(w) PROVE Desk!Next
    <3> DEFINE phone == req[w].phone
               purpose == req[w].purpose
               inv == invalidate_existing(phone, purpose)
    <3>1. phone \in Phones /\ purpose \in VALID_PURPOSES
      BY <2>3 DEF CreateWrite, TypeOK, Creating
    <3>2. PICK otp \in Codes : otp_logs' = Append(inv, NewLog(phone, purpose, otp))
      BY <2>3 DEF CreateWrite
    <3>3. inv \in Seq(OTPLog) /\ Len(inv) = Len(otp_logs)
      BY <2>b, InvalidateKeeps
    <3>4. /\ Rows' = 1 .. (Len(otp_logs) + 1)
          /\ \A i \in Rows : otp_logs'[i] = inv[i]
          /\ otp_logs'[Len(otp_logs) + 1] = NewLog(phone, purpose, otp)
      BY <2>b, <3>2, <3>3 DEF Rows
    <3>5. DeskRows' = Append(Desk!Revoked(<<phone, purpose>>),
                             [key |-> <<phone, purpose>>, live |-> TRUE])
      <4> DEFINE pic == [i \in Rows |-> [key |-> <<inv[i].phone_number, inv[i].purpose>>,
                                         live |-> inv[i].is_active]]
                 new == [key |-> <<phone, purpose>>, live |-> TRUE]
      <4>1. pic = Desk!Revoked(<<phone, purpose>>)
        BY InvalidateIsRevoke
      <4>2. DeskRows' = [i \in 1 .. (Len(otp_logs) + 1) |->
                           IF i \in Rows THEN pic[i] ELSE new]
        <5>1. ASSUME NEW i \in Rows'
              PROVE  [key |-> Key(i)', live |-> otp_logs'[i].is_active]
                     = IF i \in Rows THEN pic[i] ELSE new
          <6>1. CASE i \in Rows
            BY <3>4, <6>1 DEF Key
          <6>2. CASE i \notin Rows
            <7>1. i = Len(otp_logs) + 1
              BY <2>b, <3>4, <5>1, <6>2
            <7>2. otp_logs'[i] = NewLog(phone, purpose, otp)
              BY <3>4, <7>1
            <7>3. QED
              BY <6>2, <7>2 DEF Key, NewLog
          <6>3. QED
            BY <6>1, <6>2
        <5>2. DeskRows' = [i \in Rows' |-> [key |-> Key(i)', live |-> otp_logs'[i].is_active]]
          OBVIOUS
        <5>3. QED
          BY <3>4, <5>1, <5>2
      <4> DEFINE Row == [key : {<<p, q>> : p \in Phones, q \in VALID_PURPOSES}, live : BOOLEAN]
      <4>3. pic \in Seq(Row) /\ Len(pic) = Len(otp_logs)
        <5>1. \A i \in Rows : inv[i] \in OTPLog
          BY <2>b, <3>3
        <5>2. \A i \in Rows : pic[i] \in Row
          BY <5>1 DEF OTPLog
        <5>3. pic \in [1 .. Len(otp_logs) -> Row] /\ Len(otp_logs) \in Nat
          BY <2>b, <5>2
        <5>4. QED
          BY <5>3
      <4>4. new \in Row
        BY <3>1
      <4>5. Append(pic, new) = [i \in 1 .. (Len(otp_logs) + 1) |->
                                  IF i \in Rows THEN pic[i] ELSE new]
        BY <2>b, <4>3, <4>4
      <4>6. QED
        BY <4>1, <4>2, <4>5
    <3>6. DeskLoaded' = DeskLoaded /\ accepts' = accepts
      BY <2>3 DEF CreateWrite, Return, TypeOK, Verifying
    <3>7. PICK key \in Phones \X VALID_PURPOSES : key = <<phone, purpose>>
      BY <3>1
    <3>8. Desk!Issue(key)
      BY <3>5, <3>6, <3>7 DEF Desk!Issue
    <3>9. QED
      BY <3>8 DEF Desk!Next
  <2>4. ASSUME NEW w \in Workers, SendFailed(w) PROVE Desk!Next
    <3> DEFINE phone == req[w].phone
               purpose == req[w].purpose
               inv == invalidate_existing(phone, purpose)
    <3>1. phone \in Phones /\ purpose \in VALID_PURPOSES /\ pc[w] \notin Verifying
      BY <2>4 DEF SendFailed, TypeOK, Creating, Verifying
    <3>2. otp_logs' = inv /\ Len(inv) = Len(otp_logs)
      BY <2>4, <2>b, InvalidateKeeps DEF SendFailed
    <3>3. DeskRows' = Desk!Revoked(<<phone, purpose>>)
      BY <3>2, InvalidateIsRevoke DEF Rows, Key
    <3>4. DeskLoaded' = DeskLoaded
      BY <2>4, <3>1 DEF SendFailed, Return, TypeOK, Verifying
    <3>5. PICK key \in Phones \X VALID_PURPOSES : key = <<phone, purpose>>
      BY <3>1
    <3>6. Desk!Revoke(key)
      BY <2>4, <3>3, <3>4, <3>5 DEF Desk!Revoke, SendFailed
    <3>7. QED
      BY <3>6 DEF Desk!Next
  <2>5. ASSUME NEW w \in Workers, NEW phone \in Phones, NEW purpose \in VALID_PURPOSES,
               NEW otp \in Codes, VerifyLookup(w, phone, purpose, otp)
        PROVE  Desk!Next
    <3>1. PICK i \in Rows :
             /\ Live(i, phone, purpose)
             /\ pc' = [pc EXCEPT ![w] =
                          IF AttemptsLeft(otp_logs[i].attempts) THEN "count" ELSE "exhaust"]
             /\ req' = [req EXCEPT ![w] =
                          [phone |-> phone, purpose |-> purpose, otp |-> otp, log |-> i,
                           attempts |-> otp_logs[i].attempts]]
      BY <2>5 DEF VerifyLookup
    <3>2. DeskRows' = DeskRows /\ accepts' = accepts /\ pc[w] = "idle"
      BY <2>5 DEF VerifyLookup, Rows, Key
    <3>3. DeskLoaded' = [DeskLoaded EXCEPT ![w] = i] /\ DeskLoaded[w] = 0
      BY <3>1, <3>2 DEF TypeOK, Verifying
    <3>4. DeskRows[i].key = <<phone, purpose>> /\ DeskRows[i].live /\ i \in DOMAIN DeskRows
      BY <3>1 DEF Live, SameKey, Key
    <3>5. Desk!Load(w, <<phone, purpose>>)
      BY <3>2, <3>3, <3>4 DEF Desk!Load
    <3>6. <<phone, purpose>> \in Phones \X VALID_PURPOSES
      OBVIOUS
    <3>7. QED
      BY <3>5, <3>6, Zenon DEF Desk!Next
  <2>6. ASSUME NEW w \in Workers, NEW log \in Rows,
               otp_logs' = [otp_logs EXCEPT ![log] = otp_logs'[log]],
               otp_logs'[log].phone_number = otp_logs[log].phone_number,
               otp_logs'[log].purpose = otp_logs[log].purpose,
               otp_logs'[log].is_active = FALSE
        PROVE  DeskRows' = [DeskRows EXCEPT ![log] = [key |-> Key(log), live |-> FALSE]]
    <3>1. Rows' = Rows
      BY <2>6, <2>b DEF Rows
    <3>2. \A i \in Rows : i # log => otp_logs'[i] = otp_logs[i]
      BY <2>6, <2>b
    <3>3. \A i \in Rows : i # log => Key(i)' = Key(i) /\ otp_logs'[i].is_active = otp_logs[i].is_active
      BY <3>2 DEF Key
    <3>4. Key(log)' = Key(log)
      BY <2>6 DEF Key
    <3>5. QED
      BY <2>6, <3>1, <3>3, <3>4
  <2>7. ASSUME NEW w \in Workers, VerifyExhausted(w) PROVE Desk!Next
    <3> DEFINE log == req[w].log
    <3>1. log \in Rows /\ pc[w] \in Verifying
      BY <2>7, <2>d DEF VerifyExhausted, Verifying
    <3> DEFINE dead == [otp_logs[log] EXCEPT !.is_active = FALSE]
    <3>2. otp_logs' = [otp_logs EXCEPT ![log] = dead]
      BY <2>7 DEF VerifyExhausted
    <3> HIDE DEF dead
    <3>3. otp_logs'[log] = dead
      BY <2>b, <3>1, <3>2
    <3>4. /\ otp_logs'[log].phone_number = otp_logs[log].phone_number
          /\ otp_logs'[log].purpose = otp_logs[log].purpose
          /\ otp_logs'[log].is_active = FALSE
      BY <2>a, <3>1, <3>3 DEF OTPLog, dead
    <3>5. DeskRows' = [DeskRows EXCEPT ![log] = [key |-> Key(log), live |-> FALSE]]
      BY <2>6, <3>1, <3>2, <3>3, <3>4
    <3>6. DeskLoaded[w] = log /\ log # 0 /\ DeskLoaded' = [DeskLoaded EXCEPT ![w] = 0]
      BY <2>7, <2>b, <2>c, <2>e, <3>1 DEF VerifyExhausted
    <3>7. accepts' = accepts
      BY <2>7 DEF VerifyExhausted
    <3>8. Desk!Exhaust(w)
      BY <3>5, <3>6, <3>7 DEF Desk!Exhaust, Desk!Spent, Desk!Dead
    <3>9. QED
      BY <3>8 DEF Desk!Next
  <2>8. ASSUME NEW w \in Workers, VerifyCount(w)
        PROVE  UNCHANGED <<DeskRows, DeskLoaded, accepts>>
    <3> DEFINE log == req[w].log
    <3>1. log \in Rows
      BY <2>8, <2>d DEF VerifyCount, Verifying
    <3>2. Rows' = Rows
      BY <2>8, <2>b DEF VerifyCount, Rows
    <3>3. \A i \in Rows : otp_logs'[i] = otp_logs[i]
                          \/ otp_logs'[i] = Counted(otp_logs[i], req[w].attempts)
      BY <2>8, <2>b, <3>1 DEF VerifyCount
    <3>4. \A i \in Rows : Key(i)' = Key(i) /\ otp_logs'[i].is_active = otp_logs[i].is_active
      BY <2>a, <3>3 DEF Counted, OTPLog, Key
    <3>5. DeskLoaded' = DeskLoaded
      BY <2>8 DEF VerifyCount, TypeOK, Verifying
    <3>6. QED
      BY <2>8, <3>2, <3>4, <3>5 DEF VerifyCount
  <2>9. ASSUME NEW w \in Workers, VerifyCompare(w)
        PROVE  [Desk!Next]_<<DeskRows, DeskLoaded, accepts>>
    <3> DEFINE log == req[w].log
    <3>1. log \in Rows /\ pc[w] \in Verifying /\ Return(w)
      BY <2>9, <2>d DEF VerifyCompare, Verifying
    <3>2. CASE UNCHANGED <<otp_logs, accepts>>
      BY <2>f, <3>1, <3>2
    <3>3. CASE /\ otp_logs' = [otp_logs EXCEPT ![log] = MarkedUsed(otp_logs[log])]
               /\ accepts' = Append(accepts, [worker |-> w, log |-> log])
      <4>1. otp_logs'[log] = MarkedUsed(otp_logs[log])
        BY <2>b, <3>1, <3>3
      <4>2. /\ otp_logs'[log].phone_number = otp_logs[log].phone_number
            /\ otp_logs'[log].purpose = otp_logs[log].purpose
            /\ otp_logs'[log].is_active = FALSE
        BY <2>a, <3>1, <4>1 DEF OTPLog, MarkedUsed
      <4>3. DeskRows' = [DeskRows EXCEPT ![log] = [key |-> Key(log), live |-> FALSE]]
        BY <2>6, <3>1, <3>3, <4>1, <4>2
      <4>4. DeskLoaded[w] = log /\ log # 0 /\ DeskLoaded' = [DeskLoaded EXCEPT ![w] = 0]
        BY <2>b, <2>c, <2>e, <3>1
      <4>5. Desk!Accept(w)
        <5>1. DeskRows[log].key = Key(log)
          BY <3>1
        <5>2. DeskRows' = [DeskRows EXCEPT ![DeskLoaded[w]] =
                             [key |-> DeskRows[DeskLoaded[w]].key, live |-> FALSE]]
          BY <4>3, <4>4, <5>1
        <5>3. accepts' = Append(accepts, [worker |-> w, log |-> DeskLoaded[w]])
          BY <3>3, <4>4
        <5>4. QED
          BY <4>4, <5>2, <5>3 DEF Desk!Accept, Desk!Spent, Desk!Dead
      <4>6. QED
        BY <4>5 DEF Desk!Next
    <3>4. QED
      BY <2>9, <3>2, <3>3 DEF VerifyCompare
  <2>10. ASSUME NEW w \in Workers, SendDelivered(w) \/ Abort(w) \/ WorkerRestart(w)
         PROVE  [Desk!Next]_<<DeskRows, DeskLoaded, accepts>>
    BY <2>10, <2>f DEF SendDelivered, Abort, WorkerRestart
  <2>11. CASE (\E m \in outbox : Dispatch(m)) \/ Tick
    BY <2>11 DEF Dispatch, Tick, Rows, Key
  <2>12. QED
    BY <2>1, <2>2, <2>3, <2>4, <2>5, <2>7, <2>8, <2>9, <2>10, <2>11 DEF Next, WorkerStep
<1>3. QED
  BY <1>1, <1>2, Typing, PTL DEF Spec, ImplementsDesk, Desk!Spec, Key

=============================================================================
