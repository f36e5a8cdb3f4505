\* The audit row of an anonymous vote names resident and option.
SPECIFICATION Spec
CONSTANTS
    anon = anon
    ident = ident
    a1 = a1
    a2 = a2
    i1 = i1
    i2 = i2
    NULL = NULL
    Users = {u1}
    Topics = {anon}
    Options = {a1}
    Workers = {w1}
    TopicOf <- MCTopicOf
    Mode <- MCMode
    start_time <- MCNoWindow
    end_time <- MCNoWindow
    Statuses = {"active", "closed"}
    MaxTime = 0
INVARIANT AnonymousUnlinked
