---------------------------- MODULE TopicAdminProofs ----------------------------
(* Theorems about TopicAdmin, for every set of residents, topics, administrators *)
(* and readers.                                                                  *)
EXTENDS TopicAdmin, ReportsProofs

-----------------------------------------------------------------------------
(* Types *)

\* A viewer is nobody, or a resident with a topic.
LEMMA Viewers ==
  ASSUME NEW v \in Viewer, v # NoViewer
  PROVE  v.user \in Users /\ v.topic \in Topics /\ v.kind \in {"results", "report"}
BY DEF Viewer

LEMMA RightsTyped == \A r \in Readers : Rights(r) \subseteq {"authorised", "observer"}
BY DEF Rights

\* A save under way is one of a list of residents, for a topic that exists.
SavesExisting ==
    \A a \in Admins : saving[a] # NoSave => saving[a].topic \in created

LEMMA Saves ==
  ASSUME NEW s \in Save, s # NoSave
  PROVE  s.topic \in Topics /\ s.chosen \subseteq Users /\ s.old \subseteq Users
BY DEF Save

LEMMA TopicsTypingStep ==
  ASSUME TopicsTypeOK, SavesExisting, [TopicsNext]_allvars
  PROVE  (TopicsTypeOK /\ SavesExisting)'
<1> USE DEF TopicsTypeOK, SavesExisting
<1>1. CASE UNCHANGED allvars
  BY <1>1 DEF allvars, avars, vars
<1>2. CASE TopicsNext
  <2>1. rights' \in [Readers -> SUBSET {"authorised", "observer"}]
    <3>1. \A r \in Readers : Rights(r)' \subseteq {"authorised", "observer"}
      BY DEF Rights
    <3>2. QED
      BY <1>2, <3>1 DEF TopicsNext
  <2>2. CASE Next /\ OnCreated /\ UNCHANGED <<rvars, avars, viewer>>
    BY <2>1, <2>2 DEF OnCreated, avars
  <2>3. ASSUME NEW r \in Readers,
               \/ \E u \in Users, t \in Topics, kind \in {"results", "report"} : Ask(r, u, t, kind)
               \/ CheckObserver(r)
               \/ BeginReport(r)
               \/ AskAbort(r)
               \/ Read(r),
               UNCHANGED <<vars, avars>>
        PROVE  (TopicsTypeOK /\ SavesExisting)'
    <3>1. viewer' \in [Readers -> Viewer]
      BY <2>3 DEF Ask, CheckObserver, BeginReport, AskAbort, Read, Viewer
    <3>2. QED
      BY <2>1, <2>3, <3>1 DEF vars, avars
  <2>4. ASSUME NEW t \in Topics, NEW ids \in SUBSET Users, CreateTopic(t, ids),
               UNCHANGED <<vars, rvars, viewer>>
        PROVE  (TopicsTypeOK /\ SavesExisting)'
    <3>1. Approved(ids) \in SUBSET Users
      BY DEF Approved
    <3>2. QED
      BY <2>1, <2>4, <3>1 DEF CreateTopic, vars
  <2>5. ASSUME NEW a \in Admins, NEW t \in Topics, NEW ids \in SUBSET Users,
               SaveSelect(a, t, ids), UNCHANGED <<vars, rvars, viewer>>
        PROVE  (TopicsTypeOK /\ SavesExisting)'
    <3>1. [topic |-> t, chosen |-> Approved(ids), old |-> observers[t]] \in Save
      BY DEF Approved, Save
    <3>2. saving' \in [Admins -> Save]
      BY <2>5, <3>1 DEF SaveSelect
    <3>3. QED
      BY <2>1, <2>5, <3>2 DEF SaveSelect, vars
  <2>6. ASSUME NEW a \in Admins, SaveCommit(a), UNCHANGED <<vars, rvars, viewer>>
        PROVE  (TopicsTypeOK /\ SavesExisting)'
    <3> DEFINE s == saving[a]
               list == (observers[s.topic] \ (s.old \ s.chosen)) \cup (s.chosen \ s.old)
    <3>1. s \in Save /\ s # NoSave /\ s.topic \in created
      BY <2>6 DEF SaveCommit
    <3>2. s.topic \in Topics /\ list \subseteq Users
      BY <3>1, Saves
    <3>3. /\ created' = created /\ saving' = [saving EXCEPT ![a] = NoSave]
          /\ observers' = [observers EXCEPT ![s.topic] = list] \/ observers' = observers
      BY <2>6 DEF SaveCommit
    <3> HIDE DEF list, s
    <3>4. /\ observers' \in [Topics -> SUBSET Users]
          /\ \A t \in Topics \ created : observers'[t] = observers[t]
      BY <3>1, <3>2, <3>3
    <3>5. saving' \in [Admins -> Save] /\ SavesExisting'
      BY <3>3 DEF Save
    <3>6. QED
      BY <2>1, <2>6, <3>3, <3>4, <3>5 DEF vars
  <2>7. ASSUME NEW a \in Admins, SaveAbort(a), UNCHANGED <<vars, rvars, viewer>>
        PROVE  (TopicsTypeOK /\ SavesExisting)'
    BY <2>1, <2>7 DEF SaveAbort, vars, Save
  <2>8. QED
    BY <1>2, <2>2, <2>3, <2>4, <2>5, <2>6, <2>7 DEF TopicsNext
<1>3. QED
  BY <1>1, <1>2

LEMMA TopicsInvariant == TopicsSpec => [](TopicsTypeOK /\ SavesExisting)
<1>1. TopicsInit => TopicsTypeOK /\ SavesExisting
  BY DEF TopicsInit, TopicsTypeOK, SavesExisting, Save, Viewer
<1>2. TopicsTypeOK /\ SavesExisting /\ [TopicsNext]_allvars => (TopicsTypeOK /\ SavesExisting)'
  BY TopicsTypingStep
<1>3. QED
  BY <1>1, <1>2, PTL DEF TopicsSpec

\* Topics, lists and requests keep their types; a topic without a row has no observer
\* and stays a draft.
THEOREM TopicsTyping == TopicsSpec => []TopicsTypeOK
BY TopicsInvariant, PTL

-----------------------------------------------------------------------------
(* What holds of the votes and of the answers *)

\* Administrators and residents aside, a run of TopicAdmin is a run of Reports: what
\* is proved of the votes and of the answers made of them holds under it.
THEOREM ReportsUnderneath == TopicsSpec => ReportsSpec
<1>1. TopicsInit => ReportsInit
  BY DEF TopicsInit
<1>2. TopicsTypeOK /\ [TopicsNext]_allvars => [ReportsNext]_<<vars, rvars>>
  <2> SUFFICES ASSUME TopicsTypeOK, [TopicsNext]_allvars PROVE [ReportsNext]_<<vars, rvars>>
    OBVIOUS
  <2>1. CASE UNCHANGED allvars
    BY <2>1 DEF allvars
  <2>2. CASE Next /\ UNCHANGED rvars
    BY <2>2 DEF ReportsNext
  <2>3. ASSUME NEW r \in Readers,
               CheckObserver(r) \/ BeginReport(r) \/ AskAbort(r) \/ Read(r), UNCHANGED vars
        PROVE  [ReportsNext]_<<vars, rvars>>
    <3>1. CASE UNCHANGED rvars
      BY <2>3, <3>1
    <3>2. CASE ReaderStep(r)
      BY <2>3, <3>2 DEF ReportsNext
    <3>3. ASSUME CheckObserver(r) \/ BeginReport(r), ~UNCHANGED rvars PROVE ReaderStep(r)
      <4>1. /\ ResultsOpen(r, viewer[r].topic) \/ ReportOpen(r, viewer[r].topic)
            /\ viewer[r] # NoViewer
        BY <3>3 DEF CheckObserver, BeginReport
      <4>2. viewer[r].topic \in Topics
        BY <4>1, Viewers DEF TopicsTypeOK
      <4>3. QED
        BY <4>1, <4>2 DEF ReaderStep
    <3>4. QED
      BY <2>3, <3>1, <3>2, <3>3 DEF AskAbort, Read
  <2>4. QED
    BY <2>1, <2>2, <2>3 DEF TopicsNext, Ask
<1>3. QED
  BY <1>1, <1>2, TopicsTyping, PTL DEF TopicsSpec, ReportsSpec

\* What the service promises of votes, listings and totals is not weakened by topics that
\* appear, lists that are saved and residents who are disabled meanwhile: the table is
\* still a ballot box, lists agree with the check, few votes land late, totals add up.
THEOREM TopicsKeepVotes ==
  TopicsSpec => /\ []ReportsTypeOK
                /\ [](NoDoubleVote /\ VotesMatchTracking)
                /\ []OneLateVotePerWorker
                /\ []ListedIffAccepted
                /\ []ReportAddsUp
                /\ ImplementsBallotBox
BY ReportsUnderneath, ReportsTyping, Underneath, NoDouble, Matching, OneLateVote,
   ListedAccepted, AddsUp, Implements, PTL

-----------------------------------------------------------------------------
(* Saving observers *)

\* Whoever saves at the same time: a save strikes off those it saw and did not choose,
\* and adds those it chose; nothing else touches the observers of a topic that exists.
THEOREM SavesTouch == TopicsSpec => SavesTouchWhatTheySaw
<1> DEFINE touch ==
      \A t \in created :
         /\ \A u \in observers[t] \ observers'[t] :
               \E a \in Admins : saving[a].topic = t /\ u \in saving[a].old \ saving[a].chosen
         /\ \A u \in observers'[t] \ observers[t] :
               \E a \in Admins : saving[a].topic = t /\ u \in saving[a].chosen
<1>1. TopicsTypeOK /\ [TopicsNext]_allvars => touch
  <2> SUFFICES ASSUME TopicsTypeOK, [TopicsNext]_allvars PROVE touch
    OBVIOUS
  <2> USE DEF TopicsTypeOK
  <2>1. CASE UNCHANGED observers
    BY <2>1
  <2>2. ASSUME NEW t \in Topics, NEW ids, CreateTopic(t, ids) PROVE touch
    BY <2>2 DEF CreateTopic
  <2>3. ASSUME NEW a \in Admins, SaveCommit(a) PROVE touch
    <3> DEFINE s == saving[a]
               list == (observers[s.topic] \ (s.old \ s.chosen)) \cup (s.chosen \ s.old)
    <3>1. s.topic \in Topics
      BY <2>3, Saves DEF SaveCommit
    <3>2. CASE observers' = [observers EXCEPT ![s.topic] = list]
      BY <3>1, <3>2
    <3>3. QED
      BY <2>1, <2>3, <3>2 DEF SaveCommit
  <2>4. QED
    BY <2>1, <2>2, <2>3 DEF TopicsNext, SaveSelect, SaveAbort, allvars, avars
<1>2. touch => [touch]_allvars
  OBVIOUS
<1>3. QED
  BY <1>1, TopicsTyping, PTL DEF TopicsSpec, SavesTouchWhatTheySaw

\* A save that ends leaves the list that was chosen.
ListSaved ==
    \A a \in Admins :
        SaveCommit(a) => observers' = [observers EXCEPT ![saving[a].topic] = saving[a].chosen]

\* With one worker for the administrators a save is never rolled back by a row that came
\* or went, and what it leaves are exactly the approved residents that were chosen: what
\* set_topic_observers answers and logs (admin_service.py:293-307) is then true.
THEOREM LoneSave ==
  ASSUME NEW a \in Admins, Admins = {a}
  PROVE  TopicsSpec => [][ListSaved]_allvars
<1> DEFINE Current == saving[a] # NoSave => saving[a].old = observers[saving[a].topic]
<1>1. TopicsInit => Current
  BY DEF TopicsInit
<1>2. TopicsTypeOK /\ SavesExisting /\ Current /\ [TopicsNext]_allvars => Current'
  <2> SUFFICES ASSUME TopicsTypeOK, SavesExisting, Current, [TopicsNext]_allvars PROVE Current'
    OBVIOUS
  <2> USE DEF TopicsTypeOK
  <2>1. CASE UNCHANGED <<observers, saving>>
    BY <2>1
  <2>2. ASSUME NEW t \in Topics, NEW ids, CreateTopic(t, ids) PROVE Current'
    BY <2>2 DEF CreateTopic, SavesExisting
  <2>3. ASSUME NEW t \in Topics, NEW ids, SaveSelect(a, t, ids) PROVE Current'
    BY <2>3 DEF SaveSelect
  <2>4. ASSUME SaveCommit(a) \/ SaveAbort(a) PROVE Current'
    BY <2>4 DEF SaveCommit, SaveAbort
  <2>5. QED
    BY <2>1, <2>2, <2>3, <2>4 DEF TopicsNext, allvars, avars
<1>3. TopicsTypeOK /\ Current => ListSaved
  <2> SUFFICES ASSUME TopicsTypeOK, Current, SaveCommit(a)
               PROVE  observers' = [observers EXCEPT ![saving[a].topic] = saving[a].chosen]
    BY DEF ListSaved
  <2> DEFINE s == saving[a]
  <2>1. s # NoSave /\ s.old = observers[s.topic]
    BY DEF SaveCommit
  <2>2. (observers[s.topic] \ (s.old \ s.chosen)) \cup (s.chosen \ s.old) = s.chosen
    BY <2>1
  <2>3. s.old \ s.chosen \subseteq observers[s.topic]
        /\ (s.chosen \ s.old) \cap observers[s.topic] = {}
    BY <2>1
  <2>4. QED
    BY <2>2, <2>3 DEF SaveCommit
<1> HIDE DEF Current
<1>4. QED
  BY <1>1, <1>2, <1>3, TopicsInvariant, PTL DEF TopicsSpec

-----------------------------------------------------------------------------
(* Who gets counts *)

\* A request that was let in came from an approved resident; once answering, it answers
\* what was asked, and over the results route to one who was an observer.
Admitted(r) ==
    viewer[r] # NoViewer =>
        /\ "authorised" \in rights[r]
        /\ rpc[r] # "idle" => /\ viewer[r].kind = "results" => "observer" \in rights[r]
                              /\ rep[r].kind = viewer[r].kind
                              /\ rep[r].topic = viewer[r].topic

\* A reader that goes on goes on with the answer it has begun.
LEMMA AnswerGoesOn ==
  ASSUME ReportsTypeOK, NEW r \in Readers, rpc[r] # "idle", ReaderStep(r), rpc'[r] # "idle"
  PROVE  rep'[r].kind = rep[r].kind /\ rep'[r].topic = rep[r].topic
<1> USE DEF ReportsTypeOK, Move
<1>a. rep[r] \in Report
  OBVIOUS
<1>1. CASE ReportTotal(r)
  BY <1>1, <1>a DEF ReportTotal, Report
<1>2. ASSUME NEW o \in Options, CountOption(r, o)
      PROVE  rep'[r].kind = rep[r].kind /\ rep'[r].topic = rep[r].topic
  BY <1>2, <1>a DEF CountOption, WithOption, Report
<1>3. CASE Assemble(r)
  BY <1>3 DEF Assemble
<1>4. QED
  BY <1>1, <1>2, <1>3 DEF ReaderStep, ResultsOpen, ReportOpen, Answer, ReaderAbort

\* The histories of rights grow while a request lasts.
LEMMA RightsGrow ==
  ASSUME TopicsTypeOK, TopicsNext, NEW r \in Readers, viewer'[r] # NoViewer
  PROVE  /\ viewer[r] # NoViewer => rights[r] \subseteq rights'[r]
         /\ authorised'[viewer'[r].user] => "authorised" \in rights'[r]
         /\ viewer'[r].user \in observers'[viewer'[r].topic] => "observer" \in rights'[r]
<1>1. rights'[r] = (IF viewer[r] = NoViewer THEN {} ELSE rights[r]) \cup Rights(r)'
  BY DEF TopicsNext
<1>2. QED
  BY <1>1 DEF Rights

LEMMA AdmittedStays ==
  ASSUME TopicsTypeOK, TopicsNext, NEW r \in Readers, Admitted(r),
         viewer'[r] = viewer[r], rpc'[r] = rpc[r], rep'[r] = rep[r]
  PROVE  Admitted(r)'
BY RightsGrow DEF Admitted

LEMMA AdmittedStep ==
  ASSUME TopicsTypeOK, ReportsTypeOK, \A r \in Readers : Admitted(r), [TopicsNext]_allvars,
         NEW r \in Readers
  PROVE  Admitted(r)'
<1> USE DEF TopicsTypeOK
<1>1. CASE UNCHANGED allvars
  BY <1>1 DEF allvars, rvars, Admitted
<1>2. CASE TopicsNext /\ UNCHANGED <<rvars, viewer>>
  BY <1>2, AdmittedStays DEF rvars
<1>3. ASSUME TopicsNext, NEW q \in Readers, UNCHANGED <<vars, avars>>,
             \/ \E u \in Users, t \in Topics, kind \in {"results", "report"} : Ask(q, u, t, kind)
             \/ CheckObserver(q)
             \/ BeginReport(q)
             \/ AskAbort(q)
             \/ Read(q)
      PROVE  Admitted(r)'
  <2>1. CASE r # q
    <3>1. viewer'[r] = viewer[r]
      BY <1>3, <2>1 DEF Ask, CheckObserver, BeginReport, AskAbort, Read
    <3>2. rpc'[r] = rpc[r] /\ rep'[r] = rep[r]
      BY <1>3, <2>1 DEF Ask, CheckObserver, BeginReport, AskAbort, Read, rvars, ReaderStep,
         ResultsOpen, ReportOpen, ReportTotal, CountOption, Assemble, Answer, ReaderAbort, Move, ReportsTypeOK
    <3>3. QED
      BY <1>3, <3>1, <3>2, AdmittedStays
  <2>2. ASSUME NEW u \in Users, NEW t \in Topics, NEW kind \in {"results", "report"},
               Ask(r, u, t, kind), r = q
        PROVE  Admitted(r)'
    <3>1. /\ viewer'[r] = [user |-> u, topic |-> t, kind |-> kind] /\ rpc'[r] = "idle"
          /\ authorised'[u]
      BY <1>3, <2>2 DEF Ask, rvars, vars
    <3>2. QED
      BY <1>3, <3>1, RightsGrow DEF Admitted
  <2>3. ASSUME CheckObserver(r), r = q PROVE Admitted(r)'
    <3>1. CASE viewer'[r] = NoViewer
      BY <3>1 DEF Admitted
    <3>2. CASE viewer'[r] # NoViewer
      <4>1. /\ viewer'[r] = viewer[r]
            /\ viewer[r].kind = "results"
            /\ viewer[r].user \in observers[viewer[r].topic]
            /\ ResultsOpen(r, viewer[r].topic)
        BY <2>3, <3>2 DEF CheckObserver
      <4>2. rep'[r].kind = "results" /\ rep'[r].topic = viewer[r].topic
        BY <4>1 DEF ResultsOpen, Move, ReportsTypeOK, NoReport
      <4>3. observers' = observers
        BY <1>3 DEF avars
      <4>4. QED
        BY <1>3, <3>2, <4>1, <4>2, <4>3, RightsGrow DEF Admitted
    <3>3. QED
      BY <3>1, <3>2
  <2>a. ASSUME BeginReport(r), r = q PROVE Admitted(r)'
    <3>1. /\ viewer'[r] = viewer[r] /\ viewer[r] # NoViewer /\ viewer[r].kind = "report"
          /\ ReportOpen(r, viewer[r].topic)
      BY <2>a DEF BeginReport
    <3>2. rep'[r].kind = "report" /\ rep'[r].topic = viewer[r].topic
      BY <3>1 DEF ReportOpen, Move, ReportsTypeOK, NoReport
    <3>3. QED
      BY <1>3, <3>1, <3>2, RightsGrow DEF Admitted
  <2>4. CASE AskAbort(r) /\ r = q
    BY <2>4 DEF AskAbort, Admitted
  <2>5. CASE Read(r) /\ r = q
    <3>1. CASE viewer'[r] = NoViewer
      BY <3>1 DEF Admitted
    <3>2. CASE viewer'[r] # NoViewer
      <4>1. viewer'[r] = viewer[r] /\ rpc[r] # "idle" /\ ReaderStep(r) /\ rpc'[r] # "idle"
        BY <2>5, <3>2 DEF Read
      <4>2. rep'[r].kind = rep[r].kind /\ rep'[r].topic = rep[r].topic
        BY <4>1, AnswerGoesOn
      <4>3. QED
        BY <1>3, <3>2, <4>1, <4>2, RightsGrow DEF Admitted
    <3>3. QED
      BY <3>1, <3>2
  <2>6. QED
    BY <1>3, <2>1, <2>2, <2>3, <2>a, <2>4, <2>5
<1>4. QED
  BY <1>1, <1>2, <1>3 DEF TopicsNext

\* Counts go to residents who were approved since they asked, over the results route to
\* those who were observers of the topic; the report route asks for no more than approval.
THEOREM AdmittedCounts == TopicsSpec => []CountsToAdmitted
<1> DEFINE inv == \A r \in Readers : Admitted(r)
<1>1. TopicsInit => inv
  BY DEF TopicsInit, Admitted
<1>2. TopicsTypeOK /\ ReportsTypeOK /\ inv /\ [TopicsNext]_allvars => inv'
  BY AdmittedStep
<1>3. TopicsTypeOK /\ inv => CountsToAdmitted
  BY DEF Admitted, CountsToAdmitted, TopicsTypeOK
<1> HIDE DEF inv
<1>4. TopicsSpec => []ReportsTypeOK
  BY ReportsUnderneath, ReportsTyping, PTL
<1>5. QED
  BY <1>1, <1>2, <1>3, <1>4, TopicsTyping, PTL DEF TopicsSpec
=============================================================================
