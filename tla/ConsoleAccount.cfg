CONSTANTS
    Tabs = {t1, t2}
    Users = {a, b}
    None = None
    Reqs = {r1, r2}
    MaxAsks = 3
SPECIFICATION Spec
INVARIANT SwitchAnnounced SharedWithinScope
PROPERTY LateAnswersDropped MixingNeedsASwitch FollowsStoredAccount
CHECK_DEADLOCK FALSE
