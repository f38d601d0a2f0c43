\* Three children; a change comes only while at most four callbacks or ends of messages wait.
SPECIFICATION Spec
CONSTANTS
    Keys = {1, 2, 3}
    NoKey = NoKey
    MaxWaiting = 4
INVARIANTS
    TypeOK
    RowsInOrder
    RowsMapChildren
    AcceptedListsLive
CHECK_DEADLOCK FALSE
