-------------------------------- MODULE Reports --------------------------------
(***************************************************************************)
(* The readers of VotingService's tables: get_results behind               *)
(* routes/voting.py and get_topic_report behind routes/reports.py.         *)
(*                                                                         *)
(* An answer is read SELECT by SELECT while votes are cast.  A count is    *)
(* modelled as the set of rows counted.  A worker that serves one of these *)
(* requests is called a reader, to tell it from those that serve voters.   *)
(* Titles, percentages and the CSV and Excel layouts are computed from the *)
(* counts and left out.                                                    *)
(***************************************************************************)
EXTENDS VotingService

CONSTANT Readers

VARIABLES
    rpc,        \* per reader: where the running handler is
    rep         \* per reader: the answer under construction

rvars == <<rpc, rep>>

\* kind: get_results or get_topic_report; total: the rows in total_votes; counted: the
\* votes under some option; left: options still to be counted; before: history, votes in
\* the table when the counting began.
Report == [kind : {"results", "report", NULL}, topic : Topics \cup {NULL},
           total : SUBSET Nat, counted : SUBSET Nat, left : SUBSET Options, before : Nat]

NoReport == [kind |-> NULL, topic |-> NULL, total |-> {}, counted |-> {}, left |-> {},
             before |-> 0]

Busy == {"total", "options", "answer"}

ReportsTypeOK ==
    /\ rpc \in [Readers -> {"idle"} \cup Busy]
    /\ rep \in [Readers -> Report]
    /\ \A r \in Readers : rpc[r] \in Busy => rep[r].topic \in Topics

ReportsInit ==
    /\ Init
    /\ rpc = [r \in Readers |-> "idle"]
    /\ rep = [r \in Readers |-> NoReport]

Move(r, label, report) ==
    /\ rpc' = [rpc EXCEPT ![r] = label]
    /\ rep' = [rep EXCEPT ![r] = report]

-----------------------------------------------------------------------------
(* Results *)

OptionsOf(t) == {o \in Options : TopicOf[o] = t}

Tracked(t) == {i \in DOMAIN vote_tracking : vote_tracking[i].topic = t}

VotesFor(t, o) == {i \in DOMAIN votes : votes[i].topic = t /\ votes[i].option = o}

\* GET /vote/topics/{id}/results; who may ask is left out, the administrator always may.
ResultsOpen(r, t) ==
    /\ rpc[r] = "idle"
    /\ Move(r, "options", [NoReport EXCEPT !.kind = "results", !.topic = t,
                                           !.left = OptionsOf(t), !.before = Len(votes)])

\* Variant: a topic that does not exist is let through.
ReportOpenAny(r, t) ==
    /\ rpc[r] = "idle"
    /\ \E found \in {t, NULL} :
          Move(r, "total", [NoReport EXCEPT !.kind = "report", !.topic = found])

\* GET /reports/topics/{id} and its exports.
ReportOpen(r, t) ==
    /\ rpc[r] = "idle"
    /\ Move(r, "total", [NoReport EXCEPT !.kind = "report", !.topic = t])

\* SELECT count(*) FROM vote_tracking
ReportTotal(r) ==
    LET t == rep[r].topic IN
    /\ rpc[r] = "total"
    /\ Move(r, "options", [rep[r] EXCEPT !.total = Tracked(t), !.before = Len(votes),
                                         !.left = OptionsOf(t)])

\* Variant: the total of a report is taken again with each option.
WithOptionRetotalled(report, new) ==
    [report EXCEPT !.counted = report.counted \cup new,
                   !.total = IF report.kind = "results" THEN report.total \cup new
                                                        ELSE Tracked(report.topic)]

\* get_results adds the counts up; get_topic_report has its total already.
WithOption(report, new) ==
    [report EXCEPT !.counted = report.counted \cup new,
                   !.total = IF report.kind = "results" THEN report.total \cup new
                                                        ELSE report.total]

\* SELECT count(*) FROM votes, for one option; the order of the options is left open.
CountOption(r, o) ==
    /\ rpc[r] = "options"
    /\ o \in rep[r].left
    /\ Move(r, "options", [WithOption(rep[r], VotesFor(rep[r].topic, o))
                              EXCEPT !.left = rep[r].left \ {o}])

\* Every option is counted: the answer is made of what was read.
Assemble(r) ==
    /\ rpc[r] = "options"
    /\ rep[r].left = {}
    /\ Move(r, "answer", rep[r])

Answer(r) ==
    /\ rpc[r] = "answer"
    /\ Move(r, "idle", NoReport)

\* The handler or its worker dies.
ReaderAbort(r) ==
    /\ rpc[r] # "idle"
    /\ Move(r, "idle", NoReport)

ReaderStep(r) ==
    \/ \E t \in Topics : ResultsOpen(r, t)
    \/ \E t \in Topics : ReportOpen(r, t)
    \/ ReportTotal(r)
    \/ \E o \in Options : CountOption(r, o)
    \/ Assemble(r)
    \/ Answer(r)
    \/ ReaderAbort(r)

ReportsNext ==
    \/ Next /\ UNCHANGED rvars
    \/ \E r \in Readers : ReaderStep(r) /\ UNCHANGED vars

ReportsSpec == ReportsInit /\ [][ReportsNext]_<<vars, rvars>>

-----------------------------------------------------------------------------
(* Properties *)

\* The total an answer gives percentages of, and the counts of the options, come from
\* different tables and moments.  All the same every vote of the total is counted under
\* an option of the topic, and every vote cast before the counting began is in the
\* total: counts can only be ahead of the total, by votes that arrived meanwhile
\* (report_service.py:41-58, voting_service.py:266-283).
ReportAddsUp ==
    \A r \in Readers : rpc[r] = "answer" =>
        /\ rep[r].total \subseteq rep[r].counted
        /\ \A i \in DOMAIN votes :
              votes[i].topic = rep[r].topic /\ i <= rep[r].before => i \in rep[r].total
=============================================================================
