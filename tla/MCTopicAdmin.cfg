\* Two residents, one topic with two options: created, opened, closed, voted on,
\* observed and counted.
SPECIFICATION TopicsSpec
CONSTANTS
    anon = anon
    a1 = a1
    a2 = a2
    NULL = NULL
    Users = {u1, u2}
    Topics = {anon}
    Options = {a1, a2}
    Workers = {w1}
    Readers = {r1}
    Admins = {d1, d2}
    TopicOf <- MCTopicOf
    Mode <- MCMode
    start_time <- MCWindow
    end_time <- MCWindow
    Statuses = {"draft", "active"}
    MaxTime = 1
VIEW View
SYMMETRY Symmetry
CONSTRAINT TwoProcesses
INVARIANTS ReportsTypeOK TopicsTypeOK ReportAddsUp OneLateVotePerWorker ListedIffAccepted CountsToAdmitted
PROPERTIES SavesTouchWhatTheySaw
