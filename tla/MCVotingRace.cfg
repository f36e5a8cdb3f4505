\* One resident votes through two workers at once; options of the topic and of another.
SPECIFICATION FairSpec
CONSTANTS
    anon = anon
    ident = ident
    a1 = a1
    a2 = a2
    i1 = i1
    i2 = i2
    NULL = NULL
    Users = {u1}
    Topics = {anon, ident}
    Options = {i1, i2}
    Workers = {w1, w2}
    TopicOf <- MCTopicOf
    Mode <- MCMode
    start_time <- MCNoWindow
    end_time <- MCFirstInstant
    Statuses = {"active", "closed"}
    MaxTime = 1
INVARIANTS TypeOK NoDoubleVote VotesMatchTracking NoPhantomAudit MyVoteHonest
PROPERTIES ImplementsBallotBox CastAnswered
