----------------------------- MODULE ReportsProofs -----------------------------
(* Theorems about Reports, for every set of residents, topics, options, workers  *)
(* and readers.                                                                  *)
EXTENDS Reports, VotingServiceProofs

\* A run of Reports, seen without its readers, is a run of VotingService: what is
\* proved of the tables holds while answers are read.
LEMMA Underneath == ReportsSpec => Spec
<1>1. ReportsInit => Init
  BY DEF ReportsInit
<1>2. [ReportsNext]_<<vars, rvars>> => [Next]_vars
  BY DEF ReportsNext
<1>3. QED
  BY <1>1, <1>2, PTL DEF ReportsSpec, Spec

LEMMA TablesHold == ReportsSpec => [](TypeOK /\ VotesMatchTracking)
BY Underneath, Typing, Matching, PTL

\* Rows are appended and never changed.
LEMMA VotesGrow ==
  ASSUME TypeOK, [Next]_vars
  PROVE  /\ Len(votes) \in Nat /\ Len(votes') \in Nat /\ Len(votes) <= Len(votes')
         /\ \A i \in 1 .. Len(votes) : votes'[i] = votes[i]
<1>1. votes \in Seq(Vote)
  BY DEF TypeOK
<1>2. CASE UNCHANGED votes
  BY <1>1, <1>2
<1>3. ASSUME NEW w \in Workers, AddsPair(w)
      PROVE  /\ Len(votes') \in Nat /\ Len(votes) <= Len(votes')
             /\ \A i \in 1 .. Len(votes) : votes'[i] = votes[i]
  <2> DEFINE new == NewVote(req[w].user, req[w].topic, req[w].option)
  <2>1. votes' = Append(votes, new) /\ new \in Vote
    BY <1>3, RowTypes DEF AddsPair
  <2> HIDE DEF new
  <2>2. QED
    BY <1>1, <2>1
<1>4. QED
  BY <1>2, <1>3, TableSteps

-----------------------------------------------------------------------------
(* Types *)

THEOREM ReportsTyping == ReportsSpec => []ReportsTypeOK
<1>1. ReportsInit => ReportsTypeOK
  BY DEF ReportsInit, ReportsTypeOK, NoReport, Report, Busy
<1>2. TypeOK /\ ReportsTypeOK /\ [ReportsNext]_<<vars, rvars>> => ReportsTypeOK'
  <2> SUFFICES ASSUME TypeOK, ReportsTypeOK, [ReportsNext]_<<vars, rvars>>
               PROVE  ReportsTypeOK'
    OBVIOUS
  <2> USE DEF ReportsTypeOK
  <2>a. NoReport \in Report
    BY DEF NoReport, Report
  <2>b. ASSUME NEW r \in Readers, NEW label \in {"idle"} \cup Busy, NEW new \in Report,
               Move(r, label, new), label \in Busy => new.topic \in Topics
        PROVE  ReportsTypeOK'
    BY <2>b DEF Move
  <2>1. CASE UNCHANGED rvars
    BY <2>1 DEF rvars
  <2>2. ASSUME NEW r \in Readers, ReaderStep(r), UNCHANGED vars
        PROVE  ReportsTypeOK'
    <3>a. rep[r] \in Report /\ Len(votes) \in Nat
      BY DEF TypeOK
    <3>1. ASSUME NEW t \in Topics, ResultsOpen(r, t)
          PROVE  ReportsTypeOK'
      <4> DEFINE new == [NoReport EXCEPT !.kind = "results", !.topic = t,
                                         !.left = OptionsOf(t), !.before = Len(votes)]
      <4>1. new \in Report /\ new.topic \in Topics
        BY <2>a, <3>a DEF Report, OptionsOf
      <4>2. Move(r, "options", new)
        BY <3>1 DEF ResultsOpen
      <4> HIDE DEF new
      <4>3. QED
        BY <2>b, <4>1, <4>2 DEF Busy
    <3>2. ASSUME NEW t \in Topics, ReportOpen(r, t)
          PROVE  ReportsTypeOK'
      <4> DEFINE new == [NoReport EXCEPT !.kind = "report", !.topic = t]
      <4>1. new \in Report /\ new.topic \in Topics
        BY <2>a DEF Report
      <4>2. Move(r, "total", new)
        BY <3>2 DEF ReportOpen
      <4> HIDE DEF new
      <4>3. QED
        BY <2>b, <4>1, <4>2 DEF Busy
    <3>3. CASE ReportTotal(r)
      <4> DEFINE t == rep[r].topic
                 new == [rep[r] EXCEPT !.total = Tracked(t), !.before = Len(votes),
                                       !.left = OptionsOf(t)]
      <4>1. Tracked(t) \subseteq Nat
        BY DEF Tracked, TypeOK
      <4>2. new \in Report /\ new.topic \in Topics
        BY <3>3, <3>a, <4>1 DEF Report, OptionsOf, ReportTotal, Busy
      <4>3. Move(r, "options", new)
        BY <3>3 DEF ReportTotal
      <4> HIDE DEF new
      <4>4. QED
        BY <2>b, <4>2, <4>3 DEF Busy
    <3>4. ASSUME NEW o \in Options, CountOption(r, o)
          PROVE  ReportsTypeOK'
      <4> DEFINE more == VotesFor(rep[r].topic, o)
                 new == [WithOption(rep[r], more) EXCEPT !.left = rep[r].left \ {o}]
      <4>1. more \subseteq Nat
        BY DEF VotesFor, TypeOK
      <4>2. Move(r, "options", new)
        BY <3>4 DEF CountOption
      <4> HIDE DEF more
      <4>3. new \in Report /\ new.topic = rep[r].topic
        BY <3>a, <4>1 DEF Report, WithOption
      <4>4. rep[r].topic \in Topics
        BY <3>4 DEF CountOption, Busy
      <4> HIDE DEF new
      <4>5. QED
        BY <2>b, <4>2, <4>3, <4>4 DEF Busy
    <3>5. CASE Assemble(r)
      BY <2>b, <3>5, <3>a DEF Assemble, Busy
    <3>6. CASE Answer(r) \/ ReaderAbort(r)
      BY <2>b, <3>6, <2>a DEF Answer, ReaderAbort, Busy
    <3>7. QED
      BY <2>2, <3>1, <3>2, <3>3, <3>4, <3>5, <3>6 DEF ReaderStep
  <2>3. QED
    BY <2>1, <2>2 DEF ReportsNext, rvars
<1>3. QED
  BY <1>1, <1>2, TablesHold, PTL DEF ReportsSpec

-----------------------------------------------------------------------------
(* The total and the counts *)

\* Vote i has been counted, or will be.
Covered(R, i) == votes[i].option \in R.left \/ i \in R.counted

\* ReportAddsUp said of a count that is under way.
Counting(R) ==
    /\ R.total \subseteq 1 .. Len(votes)
    /\ R.before \in 0 .. Len(votes)
    /\ \A i \in R.total : votes[i].topic = R.topic /\ Covered(R, i)
    /\ R.kind = "results" => R.total = R.counted
    /\ \A i \in 1 .. Len(votes) : votes[i].topic = R.topic /\ i <= R.before =>
          IF R.kind = "results" THEN Covered(R, i) ELSE i \in R.total

ReportsInv ==
    \A r \in Readers :
        /\ rpc[r] = "total" => rep[r].kind = "report"
        /\ rpc[r] \in {"options", "answer"} => Counting(rep[r])
        /\ rpc[r] = "answer" => rep[r].left = {}

\* Votes that arrive while a reader counts change nothing it has to account for.
LEMMA VotesArrive ==
  ASSUME TypeOK, [Next]_vars, UNCHANGED rvars, ReportsInv
  PROVE  ReportsInv'
<1>1. rpc' = rpc /\ rep' = rep
  BY DEF rvars
<1>2. ASSUME NEW r \in Readers, Counting(rep[r])
      PROVE  Counting(rep[r])'
  <2>1. Len(votes) \in Nat /\ Len(votes') \in Nat /\ Len(votes) <= Len(votes')
    BY VotesGrow
  <2>2. \A i \in 1 .. Len(votes) : votes'[i] = votes[i]
    BY VotesGrow
  <2>3. \A i \in 1 .. Len(votes) : Covered(rep[r], i) => Covered(rep[r], i)'
    BY <1>1, <2>2 DEF Covered
  <2>4. \A i \in 1 .. Len(votes') : i <= rep[r].before => i \in 1 .. Len(votes)
    BY <1>2, <2>1 DEF Counting
  <2> HIDE DEF Covered
  <2>5. QED
    BY <1>1, <1>2, <2>1, <2>2, <2>3, <2>4 DEF Counting
<1>3. QED
  BY <1>1, <1>2 DEF ReportsInv

LEMMA ReportsInvariant == ReportsSpec => []ReportsInv
<1>1. ReportsInit => ReportsInv
  BY DEF ReportsInit, ReportsInv
<1>2. /\ TypeOK /\ VotesMatchTracking /\ ReportsTypeOK /\ ReportsInv
      /\ [ReportsNext]_<<vars, rvars>>
      => ReportsInv'
  <2> SUFFICES ASSUME TypeOK, VotesMatchTracking, ReportsTypeOK, ReportsInv,
                      [ReportsNext]_<<vars, rvars>>
               PROVE  ReportsInv'
    OBVIOUS
  <2>1. CASE [Next]_vars /\ UNCHANGED rvars
    BY <2>1, VotesArrive
  <2>2. ASSUME NEW r \in Readers, ReaderStep(r), UNCHANGED vars
        PROVE  ReportsInv'
    <3>a. votes' = votes /\ Len(votes) \in Nat /\ DOMAIN votes = 1 .. Len(votes)
      BY <2>2 DEF vars, TypeOK
    <3>b. DOMAIN vote_tracking = 1 .. Len(votes)
      BY DEF TypeOK, VotesMatchTracking
    <3>c. rep[r] \in Report /\ rep \in [Readers -> Report] /\ rpc \in [Readers -> {"idle"} \cup Busy]
      BY DEF ReportsTypeOK
    <3>d. ASSUME NEW label, NEW new, Move(r, label, new),
                 label = "total" => new.kind = "report",
                 label \in {"options", "answer"} => Counting(new),
                 label = "answer" => new.left = {}
          PROVE  ReportsInv'
      BY <3>d, <3>a, <3>c DEF Move, ReportsInv, Counting, Covered
    <3>e. ASSUME NEW i \in 1 .. Len(votes)
          PROVE  votes[i].option \in OptionsOf(votes[i].topic)
      <4>1. votes[i].option \in Options
        <5>1. votes \in Seq(Vote)
          BY DEF TypeOK
        <5>2. votes[i] \in Vote
          BY <5>1
        <5>3. QED
          BY <5>2 DEF Vote
      <4>2. TopicOf[votes[i].option] = votes[i].topic
        BY <3>a DEF VotesMatchTracking
      <4>3. QED
        BY <4>1, <4>2 DEF OptionsOf
    <3>1. ASSUME NEW t \in Topics, ResultsOpen(r, t)
          PROVE  ReportsInv'
      <4> DEFINE new == [NoReport EXCEPT !.kind = "results", !.topic = t,
                                         !.left = OptionsOf(t), !.before = Len(votes)]
      <4>1. Counting(new)
        BY <3>a, <3>e DEF Counting, Covered, NoReport
      <4>2. Move(r, "options", new)
        BY <3>1 DEF ResultsOpen
      <4> HIDE DEF new
      <4>3. QED
        BY <3>d, <4>1, <4>2
    <3>2. ASSUME NEW t \in Topics, ReportOpen(r, t)
          PROVE  ReportsInv'
      <4> DEFINE new == [NoReport EXCEPT !.kind = "report", !.topic = t]
      <4>1. new.kind = "report"
        BY DEF NoReport
      <4>2. Move(r, "total", new)
        BY <3>2 DEF ReportOpen
      <4> HIDE DEF new
      <4>3. QED
        BY <3>d, <4>1, <4>2
    <3>3. CASE ReportTotal(r)
      <4> DEFINE t == rep[r].topic
                 new == [rep[r] EXCEPT !.total = Tracked(t), !.before = Len(votes),
                                       !.left = OptionsOf(t)]
      <4>1. rep[r].kind = "report"
        BY <3>3 DEF ReportTotal, ReportsInv
      <4>2. /\ new.total = Tracked(t) /\ new.before = Len(votes) /\ new.left = OptionsOf(t)
            /\ new.kind = "report" /\ new.topic = t
        BY <3>c, <4>1 DEF Report
      <4>3. \A i : i \in Tracked(t) <=> i \in 1 .. Len(votes) /\ votes[i].topic = t
        BY <3>a, <3>b DEF Tracked, VotesMatchTracking
      <4>4. t \in Topics
        BY <3>3 DEF ReportsTypeOK, ReportTotal, Busy
      <4>5. Move(r, "options", new)
        BY <3>3 DEF ReportTotal
      <4> HIDE DEF new, t
      <4>6. Counting(new)
        BY <3>a, <3>e, <4>2, <4>3, <4>4 DEF Counting, Covered
      <4>7. QED
        BY <3>d, <4>5, <4>6
    <3>4. ASSUME NEW o \in Options, CountOption(r, o)
          PROVE  ReportsInv'
      <4> DEFINE R == rep[r]
                 more == VotesFor(R.topic, o)
                 new == [WithOption(R, more) EXCEPT !.left = R.left \ {o}]
      <4>1. Counting(R) /\ R \in Report
        BY <3>4, <3>c DEF CountOption, ReportsInv
      <4>2. \A i : i \in more <=>
              i \in 1 .. Len(votes) /\ votes[i].topic = R.topic /\ votes[i].option = o
        BY <3>a DEF VotesFor
      <4>3. Move(r, "options", new)
        BY <3>4 DEF CountOption
      <4> HIDE DEF more
      <4>4. /\ new.counted = R.counted \cup more /\ new.left = R.left \ {o}
            /\ new.kind = R.kind /\ new.topic = R.topic /\ new.before = R.before
            /\ new.total = IF R.kind = "results" THEN R.total \cup more ELSE R.total
        BY <4>1 DEF WithOption, Report
      <4> HIDE DEF new, R
      <4>5. Counting(new)
        <5>1. more \subseteq 1 .. Len(votes)
          BY <4>2
        <5>2. new.total \subseteq 1 .. Len(votes) /\ new.before \in 0 .. Len(votes)
          BY <4>1, <4>4, <5>1 DEF Counting
        <5>3. new.kind = "results" => new.total = new.counted
          BY <4>1, <4>4 DEF Counting
        <5>4. \A i \in 1 .. Len(votes) : votes[i].topic = R.topic /\ Covered(R, i) => Covered(new, i)
          BY <4>2, <4>4 DEF Covered
        <5>5. \A i \in R.total : votes[i].topic = R.topic
          BY <4>1 DEF Counting
        <5>6. \A i \in new.total : votes[i].topic = new.topic /\ Covered(new, i)
          BY <4>1, <4>2, <4>4, <5>2, <5>4, <5>5 DEF Counting, Covered
        <5>7. \A i \in 1 .. Len(votes) : votes[i].topic = new.topic /\ i <= new.before =>
                 IF new.kind = "results" THEN Covered(new, i) ELSE i \in new.total
          BY <4>1, <4>4, <5>4 DEF Counting
        <5>8. QED
          BY <5>2, <5>3, <5>6, <5>7 DEF Counting
      <4>6. QED
        BY <3>d, <4>3, <4>5
    <3>5. CASE Assemble(r)
      BY <3>5, <3>d DEF Assemble, ReportsInv
    <3>6. CASE Answer(r) \/ ReaderAbort(r)
      BY <3>6, <3>d DEF Answer, ReaderAbort
    <3>7. QED
      BY <2>2, <3>1, <3>2, <3>3, <3>4, <3>5, <3>6 DEF ReaderStep
  <2>3. QED
    BY <2>1, <2>2 DEF ReportsNext
<1>3. QED
  BY <1>1, <1>2, TablesHold, ReportsTyping, PTL DEF ReportsSpec

THEOREM AddsUp == ReportsSpec => []ReportAddsUp
<1>1. TypeOK /\ ReportsInv => ReportAddsUp
  <2> SUFFICES ASSUME TypeOK, ReportsInv, NEW r \in Readers, rpc[r] = "answer"
               PROVE  /\ rep[r].total \subseteq rep[r].counted
                      /\ \A i \in DOMAIN votes :
                            votes[i].topic = rep[r].topic /\ i <= rep[r].before
                            => i \in rep[r].total
    BY DEF ReportAddsUp
  <2>1. Counting(rep[r]) /\ rep[r].left = {} /\ DOMAIN votes = 1 .. Len(votes)
    BY DEF ReportsInv, TypeOK
  <2>2. QED
    BY <2>1 DEF Counting, Covered
<1>2. QED
  BY <1>1, TablesHold, ReportsInvariant, PTL
=============================================================================
