CONSTANTS
    Iface = {i1, i2}
    Class = {c1, c2}
    RegIface = i2
    Name = {n1}
    Thread = {t1, t2}
    MaxRegs = 2
    MaxMade = 3
    MaxScopes = 2
    None = None
SPECIFICATION Spec
INVARIANTS
    OneInstance
    SameAnswer
    RightClass
    ListAgrees
SYMMETRY Symmetry
CHECK_DEADLOCK FALSE
