\* One request at a time: what Destroy leaves when the session is dirty.
SPECIFICATION Spec
CONSTANTS
    None = None
    Browsers = {b1}
    Requests = {q1}
    Users = {alice}
    TTL = 1
    Minute = 0
    MaxSid = 2
    MaxClock = 2
    Rush = {}
INVARIANT DestroyEnds
CHECK_DEADLOCK FALSE
