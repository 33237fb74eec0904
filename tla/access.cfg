\* Two requests of a tab while tokens expire, the server restarts, the account is switched
\* off and on, and the module too.
SPECIFICATION Spec
CONSTANTS
    Requests = {r1, r2}
    Default = TRUE
    AccessLife = 1
    RefreshLife = 2
    StableKey = FALSE
    MaxClock = 2
    MaxRestarts = 1
    None = None
INVARIANT RanOnce
PROPERTY LostByExpiry
PROPERTY EveryRequestEnds
