\* Lost updates of otp_logs.attempts between two workers.
SPECIFICATION Spec
CONSTANTS
    Phones = {p1}
    Entry = {"create"}
    NULL = NULL
    Codes = {c1, c2}
    Workers = {w1, w2}
    VALID_PURPOSES = {vote_confirmation}
    OTP_MAX_RETRIES = 2
    OTP_RATE_LIMIT = 2
    OTP_EXPIRY = 2
    MaxTime = 2
    MaxLogs = 2
SYMMETRY Symmetry
INVARIANT GuessBudget
