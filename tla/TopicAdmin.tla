------------------------------- MODULE TopicAdmin -------------------------------
(***************************************************************************)
(* Topics under several administrators: create_topic and                   *)
(* set_topic_observers of backend/services/admin_service.py over the       *)
(* topics and topic_observers tables, and what routes/voting.py and        *)
(* routes/reports.py check before they answer residents with counts.       *)
(*                                                                         *)
(* SQLAlchemy loads the old observers when the new list is assigned, and   *)
(* the flush writes the difference: DELETE for those who left, INSERT for  *)
(* those who came, in one transaction.  A DELETE of a row that is gone     *)
(* raises StaleDataError, an INSERT of a row that is there breaks the      *)
(* primary key; both roll the transaction back.                            *)
(*                                                                         *)
(* The filter on approved residents reads authorised: an approved account  *)
(* is active (Residents!FlagMatchesStatus).  Whatever the page of an       *)
(* administrator showed, the request may name any residents.               *)
(***************************************************************************)
EXTENDS Reports

CONSTANT Admins     \* the workers that serve administrators

ASSUME TopicAdminAssumption == "draft" \in Statuses

VARIABLES
    created,    \* the topics that have a row
    observers,  \* topic -> residents in topic_observers
    saving,     \* per administrator's worker: the list about to be written
    viewer,     \* per reader: the resident whose request it serves, and what for
    rights      \* history, per reader: what that resident had been since the request

avars == <<created, observers, saving>>
allvars == <<vars, rvars, avars, viewer, rights>>

NoSave == [topic |-> NULL, chosen |-> {}, old |-> {}]
Save == [topic : Topics, chosen : SUBSET Users, old : SUBSET Users] \cup {NoSave}
NoViewer == [user |-> NULL, topic |-> NULL, kind |-> NULL]
Viewer == [user : Users, topic : Topics, kind : {"results", "report"}] \cup {NoViewer}

TopicsTypeOK ==
    /\ created \subseteq Topics
    /\ observers \in [Topics -> SUBSET Users]
    /\ saving \in [Admins -> Save]
    /\ viewer \in [Readers -> Viewer]
    /\ rights \in [Readers -> SUBSET {"authorised", "observer"}]
    /\ \A t \in Topics \ created : observers[t] = {} /\ status[t] = "draft"

TopicsInit ==
    /\ ReportsInit
    /\ created = {}
    /\ status = [t \in Topics |-> "draft"]
    /\ observers = [t \in Topics |-> {}]
    /\ saving = [a \in Admins |-> NoSave]
    /\ viewer = [r \in Readers |-> NoViewer]
    /\ rights = [r \in Readers |-> {}]

-----------------------------------------------------------------------------
(* Administrators *)

\* Of the ids named, the approved residents.
Approved(ids) == {u \in ids : authorised[u]}

\* Variant: the observers are written although the topic is not.
CreateTopicTorn(t, ids) ==
    /\ t \notin created
    /\ created' \in {created, created \cup {t}}
    /\ observers' = [observers EXCEPT ![t] = Approved(ids)]
    /\ UNCHANGED saving

\* create_topic: topic, options and observers in one transaction, as a draft.
CreateTopic(t, ids) ==
    /\ t \notin created
    /\ created' = created \cup {t}
    /\ observers' = [observers EXCEPT ![t] = Approved(ids)]
    /\ UNCHANGED saving

\* set_topic_observers: the SELECTs.
SaveSelect(a, t, ids) ==
    /\ saving[a] = NoSave
    /\ t \in created
    /\ saving' = [saving EXCEPT ![a] = [topic |-> t, chosen |-> Approved(ids),
                                        old |-> observers[t]]]
    /\ UNCHANGED <<created, observers>>

\* Variant: the rows of the topic are deleted and the new list inserted.
SaveCommitWhole(a) ==
    LET s == saving[a] IN
    /\ s # NoSave
    /\ observers' = [observers EXCEPT ![s.topic] = s.chosen]
    /\ saving' = [saving EXCEPT ![a] = NoSave]
    /\ UNCHANGED created

\* set_topic_observers: the flush and the COMMIT, or an exception.
SaveCommit(a) ==
    LET s == saving[a]
        out == s.old \ s.chosen
        new == s.chosen \ s.old IN
    /\ s # NoSave
    /\ \/ /\ out \subseteq observers[s.topic]
          /\ new \cap observers[s.topic] = {}
          /\ observers' = [observers EXCEPT ![s.topic] = (observers[s.topic] \ out) \cup new]
       \/ /\ ~(out \subseteq observers[s.topic] /\ new \cap observers[s.topic] = {})
          /\ UNCHANGED observers
    /\ saving' = [saving EXCEPT ![a] = NoSave]
    /\ UNCHANGED created

\* The handler or its worker dies.
SaveAbort(a) ==
    /\ saving[a] # NoSave
    /\ saving' = [saving EXCEPT ![a] = NoSave]
    /\ UNCHANGED <<created, observers>>

-----------------------------------------------------------------------------
(* Counts for residents: /vote/topics/{id}/results and /reports/topics/{id} *)

\* Variant: the token is enough, the account is not looked up.
AskByToken(r, u, t, kind) ==
    /\ viewer[r] = NoViewer /\ rpc[r] = "idle"
    /\ t \in created
    /\ viewer' = [viewer EXCEPT ![r] = [user |-> u, topic |-> t, kind |-> kind]]
    /\ UNCHANGED rvars

\* get_current_user lets the request in.
Ask(r, u, t, kind) ==
    /\ viewer[r] = NoViewer /\ rpc[r] = "idle"
    /\ t \in created
    /\ authorised[u]
    /\ viewer' = [viewer EXCEPT ![r] = [user |-> u, topic |-> t, kind |-> kind]]
    /\ UNCHANGED rvars

\* is_observer, then get_results starts; or the answer is 403.
CheckObserver(r) ==
    LET v == viewer[r] IN
    /\ v # NoViewer /\ v.kind = "results" /\ rpc[r] = "idle"
    /\ \/ /\ v.user \in observers[v.topic]
          /\ ResultsOpen(r, v.topic)
          /\ UNCHANGED viewer
       \/ /\ v.user \notin observers[v.topic]
          /\ viewer' = [viewer EXCEPT ![r] = NoViewer]
          /\ UNCHANGED rvars

\* topic_report asks for nothing more than the account.
BeginReport(r) ==
    LET v == viewer[r] IN
    /\ v # NoViewer /\ v.kind = "report" /\ rpc[r] = "idle"
    /\ ReportOpen(r, v.topic)
    /\ UNCHANGED viewer

\* The handler dies before the check.
AskAbort(r) ==
    /\ viewer[r] # NoViewer /\ rpc[r] = "idle"
    /\ viewer' = [viewer EXCEPT ![r] = NoViewer]
    /\ UNCHANGED rvars

\* get_results and get_topic_report go on as in Reports; those without a viewer serve an
\* administrator.
Read(r) ==
    /\ viewer[r] = NoViewer \/ rpc[r] # "idle"
    /\ ReaderStep(r)
    /\ rep'[r].topic \in created \cup {NULL}
    /\ viewer' = IF rpc'[r] = "idle" THEN [viewer EXCEPT ![r] = NoViewer] ELSE viewer

-----------------------------------------------------------------------------

Rights(r) ==
    {x \in {"authorised"} : authorised[viewer[r].user]} \cup
    {x \in {"observer"} : viewer[r].user \in observers[viewer[r].topic]}

\* The steps of VotingService, on topics that exist.
OnCreated ==
    /\ \A w \in Workers : req'[w].topic \in created \cup {NULL}
    /\ \A t \in Topics \ created : status'[t] = status[t]

TopicsNext ==
    /\ \/ Next /\ OnCreated /\ UNCHANGED <<rvars, avars, viewer>>
       \/ /\ \E r \in Readers :
                \/ \E u \in Users, t \in Topics, kind \in {"results", "report"} : Ask(r, u, t, kind)
                \/ CheckObserver(r)
                \/ BeginReport(r)
                \/ AskAbort(r)
                \/ Read(r)
          /\ UNCHANGED <<vars, avars>>
       \/ /\ \/ \E t \in Topics, ids \in SUBSET Users : CreateTopic(t, ids)
             \/ \E a \in Admins, t \in Topics, ids \in SUBSET Users : SaveSelect(a, t, ids)
             \/ \E a \in Admins : SaveCommit(a)
             \/ \E a \in Admins : SaveAbort(a)
          /\ UNCHANGED <<vars, rvars, viewer>>
    /\ rights' = [r \in Readers |->
                    IF viewer'[r] = NoViewer THEN {}
                    ELSE (IF viewer[r] = NoViewer THEN {} ELSE rights[r]) \cup Rights(r)']

TopicsSpec == TopicsInit /\ [][TopicsNext]_allvars

-----------------------------------------------------------------------------
(* Properties *)

\* Two administrators save lists at once.  The result may be neither list, but nobody
\* is struck off by a save that had not seen him there, and nobody becomes an observer
\* whom no save under way named (admin_service.py:276-293).
SavesTouchWhatTheySaw ==
    [][\A t \in created :
        /\ \A u \in observers[t] \ observers'[t] :
              \E a \in Admins : saving[a].topic = t /\ u \in saving[a].old \ saving[a].chosen
        /\ \A u \in observers'[t] \ observers[t] :
              \E a \in Admins : saving[a].topic = t /\ u \in saving[a].chosen]_allvars

\* Counts reach a resident only from the route asked for and of the topic asked for: over
\* /vote/topics/{id}/results if since the request the resident was approved and an observer
\* of that topic (routes/voting.py:164), whatever lists were saved meanwhile; over
\* /reports/topics/{id} if approved (routes/reports.py:25-34).  So the full counts are not
\* restricted to observers and administrators, as ui/page_modules/vote.py:9-10 has it, nor
\* do they wait for "after the voting window closes" (vote.py:254-256): no route asks that.
CountsToAdmitted ==
    \A r \in Readers : rpc[r] = "answer" /\ viewer[r] # NoViewer =>
        /\ "authorised" \in rights[r]
        /\ viewer[r].kind = "results" => "observer" \in rights[r]
        /\ rep[r].kind = viewer[r].kind /\ rep[r].topic = viewer[r].topic
=============================================================================
