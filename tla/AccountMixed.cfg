CONSTANTS
    Tabs = {t1, t2}
    Users = {a, b}
    None = None
    Reqs = {r1, r2}
    MaxAsks = 3
SPECIFICATION Spec
INVARIANT NeverMixed
CHECK_DEADLOCK FALSE
