\* One worker: two phones and one apartment, from registration to log-in.
SPECIFICATION FlowSpec
CONSTANTS
    NULL = NULL
    Phones = {p1, p2}
    Apartments = {a1}
    Workers = {w1}
    VoterLimits = {1, 2}
    max_allowed_voters = 1
    MaxId = 3
    MaxRows = 2
SYMMETRY Symmetry
INVARIANTS FlowTypeOK FlagMatchesStatus CredentialsFollowVerification HeldIdsKeepMeaning ActsOnlyAsApproved WizardHasAccount
PROPERTIES AdmittedWithinLimit ImplementsBook
