\* Two residents at one browser, one worker, one topic: the second resident logs in over the
\* first one's session.
SPECIFICATION FlowSpec
CONSTANTS
    t1 = t1
    t2 = t2
    o1 = o1
    o2 = o2
    NULL = NULL
    Users = {u1, u2}
    Topics = {t1}
    Options = {o1}
    Workers = {w1}
    Sessions = {s1}
    TopicOf <- MCTopicOf
    Mode <- MCMode
    start_time <- MCNoWindow
    end_time <- MCNoWindow
    Statuses = {"active"}
    MaxTime = 0
    MaxOtps = 1
INVARIANTS VoterSelected
