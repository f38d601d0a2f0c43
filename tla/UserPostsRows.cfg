\* Three posts, one call of loadPosts.
SPECIFICATION Spec
CONSTANTS
    k1 = k1
    k2 = k2
    k3 = k3
    Keys <- MCThreeKeys
    NoKey = NoKey
    MaxClicks = 0
    MaxLoads = 1
INVARIANTS RowsOpenTheirPost
CHECK_DEADLOCK FALSE
