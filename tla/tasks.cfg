CONSTANTS
    j1 = j1
    j2 = j2
    j3 = j3
    w1 = w1
    w2 = w2
    ta = ta
    tb = tb
    tx = tx
    p1 = p1
    p2 = p2
    c1 = c1
    Services <- MCServices
    Knows <- MCKnows
    Job <- MCJob
    NameOf <- MCNameOf
    PosterOf <- MCPosterOf
    PrincipalOf <- MCPrincipalOf
    Client <- MCClient
    Watches <- MCWatches
    Timeout <- MCTimeout
    Order <- MCOrder
    Holder = "default"
    MaxFaults = 1
    None = None
SPECIFICATION FairSpec
INVARIANTS
    BodySeesPoster
    CleanAfterBody
    AnswerTrue
PROPERTIES
    StatusNeverFalls
    JobGetsResult
CHECK_DEADLOCK FALSE
