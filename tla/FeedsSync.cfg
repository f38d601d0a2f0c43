\* Two posts, one sync, one restart.
SPECIFICATION Spec
CONSTANTS
    k1 = k1
    k2 = k2
    here = here
    there = there
    q1 = q1
    Keys <- MCKeys
    Places <- MCPlaces
    Around <- MCAround
    Queries <- MCQueries
    MaxRestarts = 1
INVARIANTS
    TypeOK
    RowUnique
    ModelsMatchRows
    KnownRowsFresh
PROPERTIES
    PostsArrive
CHECK_DEADLOCK FALSE
