\* Two posts, two clicks, two calls of loadPosts.
SPECIFICATION Spec
CONSTANTS
    k1 = k1
    k2 = k2
    k3 = k3
    Keys <- MCKeys
    NoKey = NoKey
    MaxClicks = 2
    MaxLoads = 2
SYMMETRY KeySymmetry
INVARIANTS
    TypeOK
    CollectionsAgree
    FollowedPostsShown
CHECK_DEADLOCK FALSE
