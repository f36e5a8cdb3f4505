\* Two phones register for one apartment: the voter limit against what the code counts.
SPECIFICATION Spec
CONSTANTS
    NULL = NULL
    Phones = {p1, p2}
    Apartments = {a1}
    Workers = {w1}
    VoterLimits = {}
    max_allowed_voters = 1
    MaxId = 3
INVARIANT ApartmentLimit
