------------------------------ MODULE AccountBook ------------------------------
(***************************************************************************)
(* What the account handlers promise when a worker runs one of them at a   *)
(* time: a book with an entry per phone, without ids, flags and handlers.  *)
(* A registration goes from its phone check to an administrator's decision *)
(* and is only started afresh before that check.  Residents implements it  *)
(* (Residents!ImplementsBook).                                             *)
(***************************************************************************)
CONSTANTS Phones, Apartments

VARIABLE book   \* the entries

Stages == {"pending_otp", "pending_approval", "approved", "rejected", "disabled"}

\* checked: the phone check of this registration was passed; password: it has one.
Entry == [phone : Phones, apartment : Apartments, status : Stages,
          checked : BOOLEAN, password : BOOLEAN]

Init == book = {}

\* A phone registers, ...
Register(new) ==
    /\ new \in Entry
    /\ new.status = "pending_otp" /\ ~new.checked /\ ~new.password

\* ... and starts again while its check is open.
Again(old, new) == old.status = "pending_otp" /\ Register(new)

Confirm(old, new) ==
    /\ old.status = "pending_otp"
    /\ new = [old EXCEPT !.status = "pending_approval", !.checked = TRUE]

Approve(old, new) ==
    /\ old.status = "pending_approval"
    /\ new = [old EXCEPT !.status = "approved", !.password = TRUE]

Reject(old, new) == new = [old EXCEPT !.status = "rejected"]

Disable(old, new) == new = [old EXCEPT !.status = "disabled"]

Enable(old, new) ==
    /\ old.status = "disabled"
    /\ new = [old EXCEPT !.status = "approved"]

EntryOf(p) == {e \in book : e.phone = p}

\* A step makes one new entry, in the place of the one its phone had.
Next ==
    \E new \in book' \ book :
        /\ book' = (book \ EntryOf(new.phone)) \cup {new}
        /\ \/ EntryOf(new.phone) = {} /\ Register(new)
           \/ \E old \in EntryOf(new.phone) :
                 \/ Again(old, new)
                 \/ Confirm(old, new)
                 \/ Approve(old, new)
                 \/ Reject(old, new)
                 \/ Disable(old, new)
                 \/ Enable(old, new)

Spec == Init /\ [][Next]_book
=============================================================================
