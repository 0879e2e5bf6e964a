CONSTANTS
    b1 = b1
    b2 = b2
    s1 = s1
    s2 = s2
    a1 = a1
    d1 = d1
    Broker <- MCBroker
    Task <- MCTask
    BrokerOf <- MCBrokerOf
    Kind <- MCKind
    PoolSize = 1
    MaxLoops = 2
    MaxCalls = 2
    MaxDeaths = 2
    Parent = Parent
    None = None
SPECIFICATION FairSpec
INVARIANTS
    OnePoolWorks
    SyncOnOwnLoop
PROPERTIES
    RefusedForCause
    AcceptedEnds
    HandlersReturn
CHECK_DEADLOCK FALSE
