SPECIFICATION PartsSpec
CONSTANTS
    Lookups = {r1, r2}
    Window = 2
    Quotas = {1, 2}
    MaxClock = 5
    MaxSetback = 1
    Players = {p1, p2}
    NoPlayer = noPlayer
    MaxLookups = 3
    Clients = {c1, c2, c3}
    TicksPerSecond = 2
    LimiterWindow = 4
    Limit = 2
    Capacities = {1, 2}
    MaxTime = 5
INVARIANTS
    PartsTypeOK
    WindowWithinQuota
    BudgetBounded
    CallsArePaidFor
    ClientRateBounded
    DenialIsDue
    RetryAfterSuffices
    BusyIsLatest
    ShownIsCurrent
PROPERTIES
    EveryLookupIsAnswered
    NoOldAnswer
