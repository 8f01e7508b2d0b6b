\* One browser, two accounts, two session ids, and a lifetime of two minutes, of
\* which Touch skips extensions of up to one: requests one after the other over four
\* minutes, and two at once around the end of the first lifetime.
SPECIFICATION Spec
CONSTANTS
    None = None
    Browsers = {b1}
    Requests = {q1, q2}
    Users = {alice, bob}
    TTL = 2
    Minute = 1
    MaxSid = 2
    MaxClock = 4
    Rush = {2, 3}
SYMMETRY Alike
VIEW Relevant
INVARIANTS TypeOK OneOwner EndedStaysEnded LogoutSticks SlidingExpiry
CHECK_DEADLOCK FALSE
