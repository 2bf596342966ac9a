\* Three clients, room for two connections; the base loop alone, or two loops in a pool.
CONSTANTS
    base = base
    l1 = l1
    l2 = l2
    c1 = c1
    c2 = c2
    c3 = c3
    Clients = {c1, c2, c3}
    Base = base
    PoolLoops <- TwoLoops
    PoolSizes = {0, 2}
    MaxFds = 3
SPECIFICATION FairSpec
INVARIANTS ServerIsSafe MapKnowsConnections
PROPERTIES ClientsServed ClosedIsFreed
