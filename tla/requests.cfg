CONSTANTS
    r1 = r1
    r2 = r2
    v1 = v1
    v2 = v2
    v3 = v3
    v4 = v4
    Request <- MCRequest
    Thread = {t1, t2}
    View <- MCView
    Kind <- MCKind
    Urls <- MCUrls
    Middlewares <- MCMiddlewares
    None = None
    Proxy = Proxy
SPECIFICATION Spec
SYMMETRY Symmetry
INVARIANTS
    OwnRequest
    OneTrace
    HooksRun
CHECK_DEADLOCK FALSE
