-------------------------------- MODULE OtpDesk --------------------------------
(***************************************************************************)
(* What the OTP service promises to the routes that call it, without codes,*)
(* clocks and attempts: a desk that issues passwords for a key, one live   *)
(* at a time, and tells a worker that presents one whether it serves.  A   *)
(* password stays dead, and one worker takes it at most once.  OtpService  *)
(* implements it (OtpService!ImplementsDesk); VoteFlow and AccountFlow use *)
(* it in the place of OtpService.                                          *)
(***************************************************************************)
EXTENDS Naturals, Sequences

CONSTANTS Keys, Workers

VARIABLES
    rows,       \* the passwords issued, in order: key, and whether it is live
    loaded,     \* per worker: the row it is verifying against, or 0
    accepts     \* the passwords taken: by which worker, which row

Row == [key : Keys, live : BOOLEAN]

TypeOK ==
    /\ rows \in Seq(Row)
    /\ loaded \in [Workers -> Nat]
    /\ \A w \in Workers : loaded[w] # 0 => loaded[w] \in DOMAIN rows
    /\ accepts \in Seq([worker : Workers, log : Nat])
    /\ \A k \in DOMAIN accepts : accepts[k].log \in DOMAIN rows

Init ==
    /\ rows = <<>>
    /\ loaded = [w \in Workers |-> 0]
    /\ accepts = <<>>

Dead(row) == [key |-> row.key, live |-> FALSE]

Revoked(key) ==
    [i \in DOMAIN rows |-> IF rows[i].key = key THEN Dead(rows[i]) ELSE rows[i]]

Spent(i) == [rows EXCEPT ![i] = Dead(rows[i])]

\* A new password supersedes the earlier ones of its key.
Issue(key) ==
    /\ UNCHANGED <<loaded, accepts>>
    /\ rows' = Append(Revoked(key), [key |-> key, live |-> TRUE])

\* The delivery failed: nothing of the key is live.
Revoke(key) ==
    /\ UNCHANGED <<loaded, accepts>>
    /\ rows' = Revoked(key)

\* A worker looks up the live password of a key.  It may be gone a moment later.
Load(w, key) ==
    /\ loaded[w] = 0
    /\ \E i \in DOMAIN rows :
          /\ rows[i].key = key
          /\ rows[i].live
          /\ loaded' = [loaded EXCEPT ![w] = i]
    /\ UNCHANGED <<rows, accepts>>

\* What was submitted matches.
Accept(w) ==
    /\ loaded[w] # 0
    /\ loaded' = [loaded EXCEPT ![w] = 0]
    /\ accepts' = Append(accepts, [worker |-> w, log |-> loaded[w]])
    /\ rows' = Spent(loaded[w])

\* Too many attempts: the password dies without having served.
Exhaust(w) ==
    /\ loaded[w] # 0
    /\ loaded' = [loaded EXCEPT ![w] = 0]
    /\ UNCHANGED accepts
    /\ rows' = Spent(loaded[w])

\* What was submitted does not match, or the handler dies.
Refuse(w) ==
    /\ loaded[w] # 0
    /\ loaded' = [loaded EXCEPT ![w] = 0]
    /\ UNCHANGED <<rows, accepts>>

Next ==
    \/ \E key \in Keys : Issue(key) \/ Revoke(key)
    \/ \E w \in Workers :
          \/ \E key \in Keys : Load(w, key)
          \/ Accept(w)
          \/ Exhaust(w)
          \/ Refuse(w)

Spec == Init /\ [][Next]_<<rows, loaded, accepts>>
=============================================================================
