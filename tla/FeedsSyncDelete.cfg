\* One post, one sync.
SPECIFICATION Spec
CONSTANTS
    k1 = k1
    k2 = k2
    here = here
    there = there
    q1 = q1
    Keys <- MCOneKey
    Places <- MCPlaces
    Around <- MCOneAround
    Queries <- MCQueries
    MaxRestarts = 0
PROPERTIES
    DeletedPostsLeave
CHECK_DEADLOCK FALSE
