\* Two workers interleave every account operation.
SPECIFICATION Spec
CONSTANTS
    NULL = NULL
    Phones = {p1, p2}
    Apartments = {a1}
    Workers = {w1, w2}
    VoterLimits = {1, 2}
    max_allowed_voters = 1
    MaxId = 3
SYMMETRY Symmetry
INVARIANTS OneAccountPerPhone IdKeepsPhone
