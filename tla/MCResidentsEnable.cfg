\* One account disabled and enabled before it was approved.
SPECIFICATION Spec
CONSTANTS
    NULL = NULL
    Phones = {p1, p2}
    Apartments = {a1}
    Workers = {w1}
    VoterLimits = {1}
    max_allowed_voters = 1
    MaxId = 3
INVARIANT ApprovedHasCredentials
