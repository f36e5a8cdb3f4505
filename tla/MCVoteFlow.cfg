\* Two residents at one browser, two workers, two topics, an OTP for each resident.
SPECIFICATION FlowSpec
CONSTANTS
    t1 = t1
    t2 = t2
    o1 = o1
    o2 = o2
    NULL = NULL
    Users = {u1, u2}
    Topics = {t1, t2}
    Options = {o1, o2}
    Workers = {w1, w2}
    Sessions = {s1}
    TopicOf <- MCTopicOf
    Mode <- MCMode
    start_time <- MCNoWindow
    end_time <- MCNoWindow
    Statuses = {"active"}
    MaxTime = 0
    MaxOtps = 1
VIEW View
SYMMETRY Symmetry
CONSTRAINT FewChoices
INVARIANTS FlowTypeOK NoDoubleVote VoteAsChosen ConfirmedIsCounted VotesVouched
