\* One worker process, two phones, both entry points, the real retry limit.
SPECIFICATION Spec
CONSTANTS
    Phones = {p1, p2}
    Entry = {"create", "send"}
    NULL = NULL
    Codes = {c1, c2}
    Workers = {w1}
    VALID_PURPOSES = {vote_confirmation}
    OTP_MAX_RETRIES = 3
    OTP_RATE_LIMIT = 2
    OTP_EXPIRY = 3
    MaxTime = 3
    MaxLogs = 2
SYMMETRY Symmetry
INVARIANTS GuessBudget SingleUse RateLimit
