SPECIFICATION FairLife
CONSTANTS
    b1 = b1
    b2 = b2
    c1 = c1
    c2 = c2
    d1 = d1
    d2 = d2
    d3 = d3
    None = None
    Dead = Dead
    Build <- TwoBuilds
    Clients <- TwoClients
    Installed <- SameOrMixed
    Daemons <- TwoDaemons
    MaxCrashes = 1
INVARIANT ServersReachable
PROPERTIES AttemptsEnd LostDaemonsEnd
