CONSTANTS
    t1 = t1
    t2 = t2
    n1 = n1
    n2 = n2
    a = a
    b = b
    c = c
    Tabs = {t1, t2}
    Networks = {n1, n2}
    Targets = {a, b, c}
    NetworkOf <- MCNetworkOf
    None = None
    Warm <- MCWarm
    Head = 2
    Interval = 2
    MaxBackoff = 3
    MaxShift = 1
    MaxFaults = 2
    MaxStops = 1
SPECIFICATION Spec
INVARIANTS
    SeedOnce
    LeaderCaughtUp
PROPERTIES
    Converges
    StopReleases
    Paced
CHECK_DEADLOCK FALSE
