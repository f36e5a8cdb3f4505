----------------------------- MODULE OtpDeskProofs -----------------------------
(* Theorems about OtpDesk, for every set of keys and workers; the compositions *)
(* cite them through an INSTANCE.                                              *)
EXTENDS OtpDesk, TLAPS

dvars == <<rows, loaded, accepts>>

\* The desk keeps its types, the keys of its rows and the acceptances it has recorded.
LEMMA Keeps ==
  ASSUME TypeOK, Next \/ UNCHANGED dvars
  PROVE  /\ TypeOK'
         /\ \A i \in DOMAIN rows : i \in DOMAIN rows' /\ rows'[i].key = rows[i].key
         /\ \A k \in DOMAIN accepts : k \in DOMAIN accepts' /\ accepts'[k] = accepts[k]
<1> DEFINE kept == /\ TypeOK'
                   /\ \A i \in DOMAIN rows : i \in DOMAIN rows' /\ rows'[i].key = rows[i].key
                   /\ \A k \in DOMAIN accepts : k \in DOMAIN accepts' /\ accepts'[k] = accepts[k]
<1>1. ASSUME NEW i \in DOMAIN rows
      PROVE  Dead(rows[i]) \in Row /\ Dead(rows[i]).key = rows[i].key
  <2>1. rows[i] \in Row
    BY DEF TypeOK
  <2>2. QED
    BY <2>1 DEF Row, Dead
<1>2. ASSUME NEW u \in Keys
      PROVE  /\ Revoked(u) \in Seq(Row) /\ Len(Revoked(u)) = Len(rows)
             /\ \A i \in DOMAIN rows : Revoked(u)[i].key = rows[i].key
  <2> DEFINE f == [i \in 1 .. Len(rows) |-> IF rows[i].key = u THEN Dead(rows[i]) ELSE rows[i]]
  <2>1. Revoked(u) = f /\ Len(rows) \in Nat /\ DOMAIN rows = 1 .. Len(rows)
    BY DEF Revoked, TypeOK
  <2>2. \A i \in 1 .. Len(rows) : rows[i] \in Row
    BY <2>1 DEF TypeOK
  <2>3. /\ f \in [1 .. Len(rows) -> Row]
        /\ \A i \in 1 .. Len(rows) : f[i].key = rows[i].key
    BY <1>1, <2>1, <2>2
  <2> HIDE DEF f
  <2>4. QED
    BY <2>1, <2>3
<1>3. ASSUME NEW i \in DOMAIN rows
      PROVE  /\ Spent(i) \in Seq(Row) /\ Len(Spent(i)) = Len(rows)
             /\ \A j \in DOMAIN rows : Spent(i)[j].key = rows[j].key
  <2> DEFINE d == Dead(rows[i])
  <2>1. d \in Row /\ d.key = rows[i].key
    BY <1>1
  <2>2. Spent(i) = [rows EXCEPT ![i] = d]
    BY DEF Spent
  <2> HIDE DEF d
  <2>3. QED
    BY <2>1, <2>2 DEF TypeOK
<1>4. ASSUME NEW u \in Keys, Issue(u) PROVE kept
  <2> DEFINE new == [key |-> u, live |-> TRUE]  old == Revoked(u)
  <2>1. new \in Row
    BY DEF Row
  <2>2. /\ rows' = Append(old, new) /\ old \in Seq(Row) /\ Len(old) = Len(rows)
        /\ UNCHANGED <<loaded, accepts>>
        /\ \A i \in DOMAIN rows : old[i].key = rows[i].key
    BY <1>2, <1>4 DEF Issue
  <2> HIDE DEF old, new
  <2>3. QED
    BY <2>1, <2>2 DEF TypeOK
<1>5. ASSUME NEW u \in Keys, Revoke(u) PROVE kept
  <2> DEFINE old == Revoked(u)
  <2>1. /\ rows' = old /\ old \in Seq(Row) /\ Len(old) = Len(rows)
        /\ UNCHANGED <<loaded, accepts>>
        /\ \A i \in DOMAIN rows : old[i].key = rows[i].key
    BY <1>2, <1>5 DEF Revoke
  <2> HIDE DEF old
  <2>2. QED
    BY <2>1 DEF TypeOK
<1>6. ASSUME NEW w \in Workers, NEW u \in Keys, Load(w, u) PROVE kept
  BY <1>6 DEF Load, TypeOK
<1>7. ASSUME NEW w \in Workers, Refuse(w) PROVE kept
  BY <1>7 DEF Refuse, TypeOK
<1>8. ASSUME NEW w \in Workers, Exhaust(w) \/ Accept(w) PROVE kept
  <2>1. PICK i \in DOMAIN rows : i = loaded[w]
    BY <1>8 DEF Exhaust, Accept, TypeOK
  <2> DEFINE old == Spent(i)  a == [worker |-> w, log |-> i]
  <2>2. /\ rows' = old /\ old \in Seq(Row) /\ Len(old) = Len(rows)
        /\ loaded' = [loaded EXCEPT ![w] = 0]
        /\ \A j \in DOMAIN rows : old[j].key = rows[j].key
    BY <1>3, <1>8, <2>1 DEF Exhaust, Accept
  <2>3. accepts' = accepts \/ accepts' = Append(accepts, a)
    BY <1>8, <2>1 DEF Exhaust, Accept
  <2> DEFINE Taken == [worker : Workers, log : Nat]  n == Len(accepts)
  <2>4. a \in Taken /\ a.log \in DOMAIN rows
    BY DEF TypeOK
  <2>a. accepts \in Seq(Taken) /\ \A k \in DOMAIN accepts : accepts[k].log \in DOMAIN rows
    BY DEF TypeOK
  <2> HIDE DEF old, a, Taken
  <2>5. /\ rows' \in Seq(Row) /\ Len(rows') = Len(rows)
        /\ loaded' \in [Workers -> Nat]
        /\ \A v \in Workers : loaded'[v] # 0 => loaded'[v] \in DOMAIN rows
        /\ \A j \in DOMAIN rows : j \in DOMAIN rows' /\ rows'[j].key = rows[j].key
    BY <2>2 DEF TypeOK
  <2>b. ASSUME accepts' = Append(accepts, a)
        PROVE  /\ accepts' \in Seq(Taken)
               /\ \A k \in DOMAIN accepts' : accepts'[k].log \in DOMAIN rows
               /\ \A k \in DOMAIN accepts : k \in DOMAIN accepts' /\ accepts'[k] = accepts[k]
    <3>1. /\ accepts' \in Seq(Taken) /\ n \in Nat
          /\ DOMAIN accepts = 1 .. n /\ DOMAIN accepts' = 1 .. n + 1
          /\ accepts'[n + 1] = a /\ \A k \in 1 .. n : accepts'[k] = accepts[k]
      BY <2>4, <2>a, <2>b
    <3> HIDE DEF n
    <3>2. \A k \in DOMAIN accepts' : k \in DOMAIN accepts \/ accepts'[k] = a
      BY <3>1
    <3>3. \A k \in DOMAIN accepts : k \in DOMAIN accepts' /\ accepts'[k] = accepts[k]
      BY <3>1
    <3>4. QED
      BY <2>4, <2>a, <3>1, <3>2, <3>3
  <2>6. /\ accepts' \in Seq(Taken)
        /\ \A k \in DOMAIN accepts' : accepts'[k].log \in DOMAIN rows
        /\ \A k \in DOMAIN accepts : k \in DOMAIN accepts' /\ accepts'[k] = accepts[k]
    <3>1. CASE accepts' = accepts
      BY <2>a, <3>1
    <3>2. CASE accepts' = Append(accepts, a)
      BY <2>b, <3>2
    <3>3. QED
      BY <2>3, <3>1, <3>2
  <2>7. DOMAIN rows' = DOMAIN rows
    BY <2>5 DEF TypeOK
  <2>8. QED
    BY <2>5, <2>6, <2>7 DEF TypeOK, Taken
<1>9. CASE UNCHANGED dvars
  BY <1>9 DEF TypeOK, dvars
<1>10. QED
  BY <1>4, <1>5, <1>6, <1>7, <1>8, <1>9 DEF Next

LEMMA DeskTyping == Spec => []TypeOK
<1>1. Init => TypeOK
  BY DEF Init, TypeOK
<1>2. TypeOK /\ [Next]_dvars => TypeOK'
  BY Keeps
<1>3. QED
  BY <1>1, <1>2, PTL DEF Spec, dvars

-----------------------------------------------------------------------------
(* One password, one use *)

\* A worker takes a password at most once: what it holds it has not taken, and what was
\* taken is dead.
TakenOnce ==
    \A j, k \in DOMAIN accepts :
        accepts[j].worker = accepts[k].worker /\ accepts[j].log = accepts[k].log => j = k

TakenInv ==
    /\ TakenOnce
    /\ \A k \in DOMAIN accepts : ~rows[accepts[k].log].live
    /\ \A k \in DOMAIN accepts : accepts[k].log # loaded[accepts[k].worker]

\* Rows are edited to be dead, and one may be appended.
LEMMA DeadStay ==
  ASSUME TypeOK, Next
  PROVE  \A i \in DOMAIN rows : ~rows[i].live => ~rows'[i].live
<1>1. ASSUME NEW i \in DOMAIN rows PROVE  Dead(rows[i]) \in Row /\ rows[i] \in Row /\ ~Dead(rows[i]).live
  <2>1. rows[i] \in Row
    BY <1>1 DEF TypeOK
  <2>2. Dead(rows[i]) \in Row /\ Dead(rows[i]).live = FALSE
    BY <2>1 DEF Row, Dead
  <2>3. QED
    BY <2>1, <2>2
<1>2. ASSUME NEW key \in Keys, NEW i \in DOMAIN rows, ~rows[i].live
      PROVE  /\ i \in DOMAIN Revoked(key) /\ ~Revoked(key)[i].live
             /\ Revoked(key) \in Seq(Row)
  <2> DEFINE f == [k \in 1 .. Len(rows) |-> IF rows[k].key = key THEN Dead(rows[k]) ELSE rows[k]]
  <2>1. Revoked(key) = f /\ Len(rows) \in Nat /\ DOMAIN rows = 1 .. Len(rows)
    BY DEF Revoked, TypeOK
  <2>2. \A k \in 1 .. Len(rows) : rows[k] \in Row /\ Dead(rows[k]) \in Row
    BY <1>1, <2>1
  <2>3. f \in [1 .. Len(rows) -> Row] /\ ~f[i].live
    BY <1>1, <1>2, <2>1, <2>2
  <2> HIDE DEF f
  <2>4. QED
    BY <2>1, <2>3
<1>3. ASSUME NEW i \in DOMAIN rows, ~rows[i].live, NEW key \in Keys, Issue(key) \/ Revoke(key)
      PROVE  ~rows'[i].live
  <2> DEFINE old == Revoked(key)  new == [key |-> key, live |-> TRUE]
  <2>1. i \in DOMAIN old /\ ~old[i].live /\ old \in Seq(Row) /\ new \in Row
    BY <1>2, <1>3 DEF Row
  <2>2. rows' = old \/ rows' = Append(old, new)
    BY <1>3 DEF Issue, Revoke
  <2> HIDE DEF old, new
  <2>3. QED
    BY <2>1, <2>2
<1>4. ASSUME NEW i \in DOMAIN rows, ~rows[i].live, NEW w \in Workers, Accept(w) \/ Exhaust(w)
      PROVE  ~rows'[i].live
  <2>1. PICK k \in DOMAIN rows : k = loaded[w]
    BY <1>4 DEF Accept, Exhaust, TypeOK
  <2>2. rows' = [rows EXCEPT ![k] = Dead(rows[k])]
    BY <1>4, <2>1 DEF Accept, Exhaust, Spent
  <2>3. QED
    BY <1>1, <1>4, <2>2
<1>5. QED
  BY <1>3, <1>4 DEF Next, Load, Refuse

\* However workers interleave, each takes a password at most once.
THEOREM TakenOnceEach == Spec => []TakenOnce
<1>1. Init => TakenInv
  BY DEF Init, TakenInv, TakenOnce
<1>2. TypeOK /\ TakenInv /\ [Next]_dvars => TakenInv'
  <2> SUFFICES ASSUME TypeOK, TakenInv, [Next]_dvars PROVE TakenInv'
    OBVIOUS
  <2>1. CASE UNCHANGED dvars
    <3>1. rows' = rows /\ loaded' = loaded /\ accepts' = accepts
      BY <2>1 DEF dvars
    <3>2. QED
      BY <3>1 DEF TakenInv, TakenOnce
  <2> SUFFICES ASSUME Next PROVE TakenInv'
    BY <2>1
  <2>2. \A i \in DOMAIN rows : ~rows[i].live => ~rows'[i].live
    BY DeadStay
  <2>3. \A k \in DOMAIN accepts : accepts[k].log \in DOMAIN rows /\ accepts[k].worker \in Workers
    <3> SUFFICES ASSUME NEW k \in DOMAIN accepts
                 PROVE  accepts[k].log \in DOMAIN rows /\ accepts[k].worker \in Workers
      OBVIOUS
    <3> DEFINE Taken == [worker : Workers, log : Nat]
    <3>1. accepts \in Seq(Taken) /\ accepts[k].log \in DOMAIN rows
      BY DEF TypeOK
    <3> HIDE DEF Taken
    <3>2. accepts[k] \in Taken
      BY <3>1
    <3>3. QED
      BY <3>1, <3>2 DEF Taken
  <2>4. CASE \E key \in Keys : Issue(key) \/ Revoke(key)
    <3>1. UNCHANGED <<loaded, accepts>>
      BY <2>4 DEF Issue, Revoke
    <3>2. QED
      BY <2>2, <2>3, <3>1 DEF TakenInv, TakenOnce
  <2>5. ASSUME NEW w \in Workers, NEW key \in Keys, Load(w, key) PROVE TakenInv'
    <3>1. PICK i \in DOMAIN rows : rows[i].live /\ loaded' = [loaded EXCEPT ![w] = i]
      BY <2>5 DEF Load
    <3>2. \A v \in Workers : loaded'[v] = IF v = w THEN i ELSE loaded[v]
      BY <3>1 DEF TypeOK
    <3>3. UNCHANGED <<rows, accepts>>
      BY <2>5 DEF Load
    <3>4. QED
      BY <2>3, <3>1, <3>2, <3>3 DEF TakenInv, TakenOnce
  <2>6. ASSUME NEW w \in Workers, Exhaust(w) \/ Refuse(w) PROVE TakenInv'
    <3>1. \A v \in Workers : loaded'[v] = IF v = w THEN 0 ELSE loaded[v]
      BY <2>6 DEF Exhaust, Refuse, TypeOK
    <3>2. accepts' = accepts /\ \A k \in DOMAIN accepts : accepts[k].log # 0
      BY <2>6 DEF Exhaust, Refuse, TypeOK
    <3>3. QED
      BY <2>2, <2>3, <3>1, <3>2 DEF TakenInv, TakenOnce
  <2>7. ASSUME NEW w \in Workers, Accept(w) PROVE TakenInv'
    <3> DEFINE a == [worker |-> w, log |-> loaded[w]]  n == Len(accepts)
    <3>1. PICK i \in DOMAIN rows : i = loaded[w] /\ i # 0
      BY <2>7 DEF Accept, TypeOK
    <3>2. /\ accepts' = Append(accepts, a) /\ accepts \in Seq([worker : Workers, log : Nat])
          /\ a \in [worker : Workers, log : Nat] /\ a.worker = w /\ a.log = i
      BY <2>7, <3>1 DEF Accept, TypeOK
    <3> HIDE DEF a
    <3>3. /\ n \in Nat /\ DOMAIN accepts = 1 .. n /\ DOMAIN accepts' = 1 .. n + 1
          /\ accepts'[n + 1] = a /\ \A k \in 1 .. n : accepts'[k] = accepts[k]
      BY <3>2
    <3> HIDE DEF n
    <3>4. \A k \in DOMAIN accepts' :
            \/ k \in DOMAIN accepts /\ accepts'[k] = accepts[k]
            \/ k = n + 1 /\ accepts'[k] = a
      BY <3>3
    <3>5. \A v \in Workers : loaded'[v] = IF v = w THEN 0 ELSE loaded[v]
      BY <2>7 DEF Accept, TypeOK
    <3>6. rows' = [rows EXCEPT ![i] = Dead(rows[i])] /\ ~rows'[i].live
      BY <2>7, <3>1 DEF Accept, Spent, Dead
    <3>7. TakenOnce'
      <4>1. \A k \in DOMAIN accepts : ~(accepts[k].worker = w /\ accepts[k].log = i)
        BY <3>1 DEF TakenInv
      <4>2. QED
        BY <3>2, <3>4, <4>1 DEF TakenInv, TakenOnce
    <3>8. \A k \in DOMAIN accepts' : ~rows'[accepts'[k].log].live
      BY <2>2, <2>3, <3>2, <3>4, <3>6 DEF TakenInv
    <3>9. \A k \in DOMAIN accepts' : accepts'[k].log # loaded'[accepts'[k].worker]
      <4>1. \A k \in DOMAIN accepts : accepts[k].log # 0
        BY DEF TypeOK
      <4>2. QED
        BY <2>3, <3>1, <3>2, <3>4, <3>5, <4>1 DEF TakenInv
    <3>10. QED
      BY <3>7, <3>8, <3>9 DEF TakenInv
  <2>8. QED
    BY <2>4, <2>5, <2>6, <2>7 DEF Next
<1>3. TakenInv => TakenOnce
  BY DEF TakenInv
<1>4. QED
  BY <1>1, <1>2, <1>3, DeskTyping, PTL DEF Spec, dvars
=============================================================================
